---------------------------- MODULE Spec2Model ----------------------------
(***************************************************************************)
(* Graph-colouring benchmark engine: the dispatcher of benchmark_runner    *)
(* and the colouring strategies it (or a library caller) invokes.          *)
(*                                                                         *)
(* Vertices are 0..n-1.  A colouring is a function [0..n-1 -> Int]; the    *)
(* value -1 is "uncoloured" and <<>> is the empty std::vector.             *)
(***************************************************************************)
EXTENDS Integers, Sequences, FiniteSets, Bags, TLC

VARIABLES
    graph,          \* the Graph passed by reference to the strategy
    caller,         \* "main" (benchmark_runner) or "library" (direct call)
    algorithm,      \* options.algorithm, the --algorithm NAME argument
    argv,           \* the remaining command-line flags as given
    input_file,     \* the file at options.input_path
    options,        \* struct Options once parse_arguments has run
    loaded,         \* the Graph as load_graph builds it (adjacency vectors)
    pc,             \* control location
    strategy,       \* the entry point that was invoked ("none" before)
    colours,        \* the vector returned by the entry point
    exit_code,      \* process exit code, -1 while running
    error,          \* what() of the exception that was thrown, "" if none
    results_csv,    \* the file at options.results_path
    results_before, \* history: that file when the run started
    rows_appended,  \* history: the rows append_result_csv has written
    output_file,    \* the file at options.output_path
    pi,             \* vertex relabelling used by the isomorphism rerun
    colours_pi,     \* the vector returned on the relabelled graph
    seed,           \* the seed vector handed to greedy_repair_fixed_k
    repair_order,   \* greedy_repair_fixed_k: `order` as std::sort left it
    palette_k,      \* k / palette_k of the current stage of the k-descent
    work,           \* the stage's working vector (local `colours`)
    conflicts,      \* the running conflict total of the stage
    best_solution,  \* best_solution / best_valid_solution, <<>> when empty
    recorded,       \* history: colour counts of the vectors recorded so far
    iter,           \* iter (Tabu, SA) / gen (GA) of the inner loop
    tabu,           \* tabu[v][c]: iteration at which the move stops being tabu
    best_conflicts_this_k,
    moves,          \* history: the moves Tabu has applied in the current stage
    max_iterations, \* colour_with_tabu argument
    tabu_tenure,    \* colour_with_tabu argument
    best_overall,   \* SA: [colours, conflicts, k] of the best accepted state
    best_valid_k,   \* SA best_valid_k / GA best_k: least usage recorded so far
    population,     \* GA: the Individuals of the current generation
    best,           \* GA: best Individual of the current palette
    next_pop,       \* GA: the Individuals collected for the next generation
    evaluated,      \* history: the Individuals evaluate has filled in this run
    population_size,\* GA argument (after sanitation once the call started)
    max_generations,\* GA argument
    mutation_rate,  \* GA argument, in hundredths
    snapshot,       \* the *_snapshots variant on the same draws: its lines
                    \* written (out), its own locals and its return value
    improvements,   \* history: Exact, every vector assigned to best_solution
    stack,          \* Exact: the activations of backtrack_exact, innermost last
    dsatur,         \* DSATUR: the locals colour, deg, sat, nb_colours and Q
    popped          \* history: DSATUR, the vertices taken from Q, in order

mainVars == <<graph, caller, algorithm, argv, input_file, options, loaded>>
ioVars   == <<error, results_csv, results_before, rows_appended, output_file>>
isoVars  == <<pi, colours_pi>>
descVars == <<palette_k, work, conflicts, best_solution, recorded, iter>>
tabuArgs == <<max_iterations, tabu_tenure>>
tabuVars == <<tabu, best_conflicts_this_k, moves>>
saVars   == <<best_overall, best_valid_k>>
gaArgs   == <<population_size, max_generations, mutation_rate>>
gaVars   == <<population, best, next_pop, evaluated>>
snapVars == <<snapshot, improvements>>
stepVars == <<stack, dsatur, popped>>
runVars  == <<seed, repair_order, descVars, tabuArgs, tabuVars, saVars, gaArgs, gaVars, snapVars,
              stepVars>>
vars == <<mainVars, pc, strategy, colours, exit_code, ioVars, isoVars, runVars>>

-----------------------------------------------------------------------------
(* Bounds *)

MaxN == 4          \* vertices of the exhaustively enumerated graphs
MaxPermN == 3      \* largest graph that is rerun under every relabelling
MaxRepairN == 3    \* largest graph handed to greedy_repair_fixed_k directly
MaxRepairK == 2    \* palettes handed to greedy_repair_fixed_k directly: 1..MaxRepairK
MaxSeedN == 4      \* largest graph whose seeds are enumerated entry by entry
MaxStageIterations == 6   \* max_iterations handed to colour_with_tabu on TabuTie7
MaxTabuN == 3      \* vertices of the graphs handed to colour_with_tabu
MaxIterationsArg == 1  \* explicit max_iterations arguments tried: 1..MaxIterationsArg
MaxTenureArg == 1      \* explicit tabu_tenure arguments tried: 1..MaxTenureArg
MaxPopulationArg == 2  \* --population-size values tried: 0..MaxPopulationArg
MaxGenerationsArg == 2 \* --generations values tried: 0..MaxGenerationsArg
MaxLoadN == 2          \* vertex counts declared by the files handed to load_graph directly
MaxEdgeLines == 3      \* edge lines of those files: 0..MaxEdgeLines
MaxAppends == 3        \* calls of append_result_csv on one file

DefaultPopulationSize == 64     \* Options: int population_size{64}
DefaultMaxGenerations == 500    \* Options: int max_generations{500}
DefaultMutationRate == 2        \* Options: double mutation_rate{0.02}, in hundredths
IntMax == 2147483647

-----------------------------------------------------------------------------
(* Graph model *)

Vertices(n) == 0..(n - 1)

Pairs(n) == {e \in Vertices(n) \X Vertices(n) : e[1] < e[2]}

MakeGraph(n, E) ==
    [vertex_count |-> n,
     edge_count |-> Cardinality(E),
     adjacency_list |-> [u \in Vertices(n) |->
        {v \in Vertices(n) : <<u, v>> \in E \/ <<v, u>> \in E}]]

GraphsOn(n) == {MakeGraph(n, E) : E \in SUBSET Pairs(n)}

AllGraphs(maxn) == UNION {GraphsOn(n) : n \in 1..maxn}

Adj(g, v) == g.adjacency_list[v]

Degree(g, v) == Cardinality(Adj(g, v))

\* std::max and std::min on int
Max(a, b) == IF a > b THEN a ELSE b

Min(a, b) == IF a < b THEN a ELSE b

RECURSIVE SetMax(_)
SetMax(S) == IF S = {} THEN -1
             ELSE LET x == CHOOSE y \in S : TRUE
                      m == SetMax(S \ {x})
                  IN IF x > m THEN x ELSE m

RECURSIVE SetMin(_)
SetMin(S) == LET x == CHOOSE y \in S : TRUE
             IN IF S = {x} THEN x
                ELSE LET m == SetMin(S \ {x}) IN IF x < m THEN x ELSE m

max_degree(g) ==
    LET m == SetMax({Degree(g, v) : v \in Vertices(g.vertex_count)})
    IN IF m > 0 THEN m ELSE 0

count_colours(c) ==
    LET maxc == SetMax({c[v] : v \in DOMAIN c})
    IN IF maxc >= 0 THEN maxc + 1 ELSE 0

count_conflicts(g, c) ==
    Cardinality({e \in Pairs(g.vertex_count) :
                    e[2] \in Adj(g, e[1]) /\ c[e[1]] = c[e[2]]})

\* write_snapshot: one line of the snapshots file, the entries of the vector
\* in index order separated by blanks; the model keeps the line as the
\* sequence of those entries (position i holds colours[i - 1])
Line(c) == [i \in 1..Cardinality(DOMAIN c) |-> c[i - 1]]

write_snapshot(out, c) == Append(out, Line(c))

\* Named graphs of the seed test suite (spec section 8) and two bipartite
\* graphs on which the degree order starts with two non-adjacent vertices.
PathGraph(n) == MakeGraph(n, {e \in Pairs(n) : e[2] = e[1] + 1})

CompleteGraph(n) == MakeGraph(n, Pairs(n))

CycleGraph(n) == MakeGraph(n, {e \in Pairs(n) : e[2] = e[1] + 1 \/ (e[1] = 0 /\ e[2] = n - 1)})

\* a 3-colourable graph on which Tabu, at palette 3, meets an improving move
\* that is tabu next to an equally improving move that is not
TabuTie7 ==
    MakeGraph(7, {<<0, 2>>, <<0, 6>>, <<1, 2>>, <<1, 3>>, <<1, 4>>, <<1, 5>>, <<2, 4>>,
                  <<2, 6>>, <<3, 5>>, <<3, 6>>, <<4, 6>>, <<5, 6>>})

RelabelledPath6 == MakeGraph(6, {<<1, 4>>, <<1, 2>>, <<2, 3>>, <<0, 3>>, <<0, 5>>})

K23MinusEdge == MakeGraph(5, {<<0, 2>>, <<0, 3>>, <<0, 4>>, <<1, 2>>, <<1, 3>>})

\* a 3-colourable graph that DSATUR colours with 4 colours
DsaturHard7 ==
    MakeGraph(7, {<<0, 1>>, <<0, 5>>, <<0, 6>>, <<1, 4>>, <<1, 6>>,
                  <<2, 3>>, <<2, 4>>, <<2, 5>>, <<3, 4>>, <<3, 5>>})

ScenarioGraphs == {PathGraph(5), CycleGraph(5), RelabelledPath6, DsaturHard7}

\* a 3-colourable graph that DSATUR colours with 5 colours and on which the
\* branch and bound lowers best_k twice (5 -> 4 -> 3)
ExactTwoStep11 ==
    MakeGraph(11, {<<0, 7>>, <<1, 2>>, <<1, 4>>, <<1, 7>>, <<1, 8>>, <<1, 9>>, <<2, 3>>,
                   <<2, 8>>, <<2, 10>>, <<3, 4>>, <<3, 5>>, <<3, 8>>, <<4, 7>>, <<5, 7>>,
                   <<5, 8>>, <<5, 9>>, <<5, 10>>, <<7, 10>>, <<8, 10>>})

-----------------------------------------------------------------------------
(* std::sort by descending degree: the comparator leaves the relative     *)
(* order of equal-degree vertices unspecified, so every degree-sorted     *)
(* permutation is a possible outcome.                                     *)

RECURSIVE SortedOrders(_, _)
SortedOrders(g, remaining) ==
    IF remaining = {} THEN {<<>>}
    ELSE LET maxd == SetMax({Degree(g, v) : v \in remaining})
             top == {v \in remaining : Degree(g, v) = maxd}
         IN UNION {{<<v>> \o o : o \in SortedOrders(g, remaining \ {v})} : v \in top}

DegreeOrders(g) == SortedOrders(g, Vertices(g.vertex_count))

-----------------------------------------------------------------------------
(* Welsh-Powell *)

\* variant: the sweep hands current_color to every uncoloured vertex without
\* looking at its neighbours
RECURSIVE wp_sweep_unchecked(_, _, _, _, _)
wp_sweep_unchecked(g, order, colour, j, current_color) ==
    IF j > Len(order) THEN colour
    ELSE IF colour[order[j]] = -1
         THEN wp_sweep_unchecked(g, order, [colour EXCEPT ![order[j]] = current_color],
                                 j + 1, current_color)
         ELSE wp_sweep_unchecked(g, order, colour, j + 1, current_color)

\* inner loop, j = i+1 .. n-1 (order is 1-based here, so position j+1)
RECURSIVE wp_sweep(_, _, _, _, _)
wp_sweep(g, order, colour, j, current_color) ==
    IF j > Len(order) THEN colour
    ELSE LET u == order[j]
             conflict == \E nb \in Adj(g, u) : colour[nb] = current_color
         IN IF colour[u] = -1 /\ ~conflict
            THEN wp_sweep(g, order, [colour EXCEPT ![u] = current_color], j + 1, current_color)
            ELSE wp_sweep(g, order, colour, j + 1, current_color)

\* variant: the outer loop opens a new colour class for every vertex and
\* never sweeps the rest of the order into it
RECURSIVE wp_loop_without_sweep(_, _, _, _, _)
wp_loop_without_sweep(g, order, colour, i, current_color) ==
    IF i > Len(order) THEN colour
    ELSE wp_loop_without_sweep(g, order, [colour EXCEPT ![order[i]] = current_color],
                               i + 1, current_color + 1)

RECURSIVE wp_loop(_, _, _, _, _)
wp_loop(g, order, colour, i, current_color) ==
    IF i > Len(order) THEN colour
    ELSE LET v == order[i]
         IN IF colour[v] # -1
            THEN wp_loop(g, order, colour, i + 1, current_color)
            ELSE wp_loop(g, order,
                         wp_sweep(g, order, [colour EXCEPT ![v] = current_color],
                                  i + 1, current_color),
                         i + 1, current_color + 1)

colour_with_welsh_powell(g, order) ==
    wp_loop(g, order, [v \in Vertices(g.vertex_count) |-> -1], 1, 0)

\* colour_with_welsh_powell_snapshots: the same two loops on a record
\* [colour, out]; after an assignment write_snapshot() appends the whole
\* vector as one line
assign_and_write(s, v, c) ==
    [colour |-> [u \in DOMAIN s.colour |-> IF u = v THEN c ELSE s.colour[u]],
     out |-> write_snapshot(s.out, [s.colour EXCEPT ![v] = c])]

RECURSIVE wp_sweep_snapshots(_, _, _, _, _)
wp_sweep_snapshots(g, order, s, j, current_color) ==
    IF j > Len(order) THEN s
    ELSE IF s.colour[order[j]] = -1
            /\ ~(\E nb \in Adj(g, order[j]) : s.colour[nb] = current_color)
         THEN wp_sweep_snapshots(g, order, assign_and_write(s, order[j], current_color),
                                 j + 1, current_color)
         ELSE wp_sweep_snapshots(g, order, s, j + 1, current_color)

RECURSIVE wp_loop_snapshots(_, _, _, _, _)
wp_loop_snapshots(g, order, s, i, current_color) ==
    IF i > Len(order) THEN s
    ELSE IF s.colour[order[i]] # -1
         THEN wp_loop_snapshots(g, order, s, i + 1, current_color)
         ELSE wp_loop_snapshots(g, order,
                  wp_sweep_snapshots(g, order, assign_and_write(s, order[i], current_color),
                                     i + 1, current_color),
                  i + 1, current_color + 1)

colour_with_welsh_powell_snapshots(g, order) ==
    wp_loop_snapshots(g, order,
        [colour |-> [v \in Vertices(g.vertex_count) |-> -1], out |-> <<>>], 1, 0)

-----------------------------------------------------------------------------
(* DSATUR *)

\* variant: the comparator forgets the saturation key
DegreeOnlyCmp(a, b) ==
    IF a.deg # b.deg THEN a.deg > b.deg
    ELSE a.v < b.v

\* variant: the comparator forgets the remaining degree
SaturationThenIdCmp(a, b) ==
    IF a.sat # b.sat THEN a.sat > b.sat
    ELSE a.v < b.v

\* MaxSatCmp: a precedes b
MaxSatCmp(a, b) ==
    IF a.sat # b.sat THEN a.sat > b.sat
    ELSE IF a.deg # b.deg THEN a.deg > b.deg
    ELSE a.v < b.v

\* Q.begin()
QBegin(Q) == CHOOSE a \in Q : \A b \in Q \ {a} : MaxSatCmp(a, b)

\* variant: the scan stops at its starting colour whether or not it is used
FirstUnusedNoScan(used, c) == c

\* variant: one past the largest used colour instead of the smallest free one
FirstUnusedAboveMax(used, c) == IF used = {} THEN c ELSE SetMax(used) + 1

\* smallest non-negative colour not marked in the used bitmap
RECURSIVE FirstUnused(_, _)
FirstUnused(used, c) == IF c \in used THEN FirstUnused(used, c + 1) ELSE c

dsatur_init(g) ==
    [colour |-> [v \in Vertices(g.vertex_count) |-> -1],
     deg |-> [v \in Vertices(g.vertex_count) |-> Degree(g, v)],
     sat |-> [v \in Vertices(g.vertex_count) |-> 0],
     nb_colours |-> [v \in Vertices(g.vertex_count) |-> {}],
     Q |-> {[sat |-> 0, deg |-> Degree(g, v), v |-> v] : v \in Vertices(g.vertex_count)}]

\* one iteration of the while (!Q.empty()) loop
dsatur_step(g, s) ==
    LET u == QBegin(s.Q).v
        used == {s.colour[nb] : nb \in Adj(g, u)} \ {-1}
        c == FirstUnused(used, 0)
        upd == {nb \in Adj(g, u) : s.colour[nb] = -1}
        newsat == [w \in Vertices(g.vertex_count) |->
                     IF w \in upd /\ c \notin s.nb_colours[w] THEN s.sat[w] + 1 ELSE s.sat[w]]
        newdeg == [w \in Vertices(g.vertex_count) |->
                     IF w \in upd /\ s.deg[w] > 0 THEN s.deg[w] - 1 ELSE s.deg[w]]
    IN [colour |-> [s.colour EXCEPT ![u] = c],
        deg |-> newdeg,
        sat |-> newsat,
        nb_colours |-> [w \in Vertices(g.vertex_count) |->
                          IF w \in upd THEN s.nb_colours[w] \cup {c} ELSE s.nb_colours[w]],
        Q |-> ((s.Q \ {QBegin(s.Q)})
                 \ {[sat |-> s.sat[w], deg |-> s.deg[w], v |-> w] : w \in upd})
              \cup {[sat |-> newsat[w], deg |-> newdeg[w], v |-> w] : w \in upd}]

\* the locals of colour_with_dsatur, every vector written out
dsatur_locals(s) ==
    [colour |-> [v \in DOMAIN s.colour |-> s.colour[v]],
     deg |-> [v \in DOMAIN s.deg |-> s.deg[v]],
     sat |-> [v \in DOMAIN s.sat |-> s.sat[v]],
     nb_colours |-> [v \in DOMAIN s.nb_colours |-> s.nb_colours[v]],
     Q |-> s.Q]

RECURSIVE dsatur_run(_, _)
dsatur_run(g, s) == IF s.Q = {} THEN s ELSE dsatur_run(g, dsatur_step(g, s))

colour_with_dsatur(g) == dsatur_run(g, dsatur_init(g)).colour

\* colour_with_dsatur_snapshots: write_snapshot() closes every pass of the
\* while loop
RECURSIVE dsatur_run_snapshots(_, _, _)
dsatur_run_snapshots(g, s, out) ==
    IF s.Q = {} THEN [colour |-> s.colour, out |-> out]
    ELSE LET t == dsatur_step(g, s)
         IN dsatur_run_snapshots(g, t, write_snapshot(out, t.colour))

colour_with_dsatur_snapshots(g) == dsatur_run_snapshots(g, dsatur_init(g), <<>>)

-----------------------------------------------------------------------------
(* Exact branch and bound *)

\* saturation of v over colours in [0, current_max_colour]
exact_sat(g, c, v, current_max_colour) ==
    Cardinality({c[nb] : nb \in Adj(g, v)} \cap (0..current_max_colour))

\* scan v = 0..n-1 keeping the first vertex with the largest (sat, degree)
RECURSIVE select_scan(_, _, _, _, _, _, _)
select_scan(g, c, current_max_colour, v, incumbent, best_sat, best_deg) ==
    IF v >= g.vertex_count THEN incumbent
    ELSE IF c[v] # -1
         THEN select_scan(g, c, current_max_colour, v + 1, incumbent, best_sat, best_deg)
         ELSE LET sat == exact_sat(g, c, v, current_max_colour)
                  deg == Degree(g, v)
              IN IF sat > best_sat \/ (sat = best_sat /\ deg > best_deg)
                 THEN select_scan(g, c, current_max_colour, v + 1, v, sat, deg)
                 ELSE select_scan(g, c, current_max_colour, v + 1, incumbent, best_sat, best_deg)

select_vertex(g, c, current_max_colour) ==
    select_scan(g, c, current_max_colour, 0, -1, -1, -1)

\* the new-colour branch is taken only if it can still beat the incumbent
NewColourAllowed(current_max_colour, best_k) == current_max_colour + 2 < best_k

\* variant: the bound test is off by one and cuts nodes that could still
\* improve on the incumbent by a single colour
PrunedOneEarly(current_max_colour, best_k) == current_max_colour + 2 >= best_k

\* the bound test at the top of a search node
Pruned(current_max_colour, best_k) == current_max_colour + 1 >= best_k

\* incumbent is [k |-> best_k, solution |-> best_solution, nodes |-> nodes_visited,
\* improvements |-> the vectors assigned to best_solution, in order, each as
\* the line write_snapshot would make of it]; the last
\* field is history kept for the properties, the code has no such variable
RECURSIVE backtrack_exact(_, _, _, _, _)
RECURSIVE try_existing(_, _, _, _, _, _, _, _)
backtrack_exact(g, c, coloured_count, current_max_colour, incumbent) ==
    LET b0 == [incumbent EXCEPT !.nodes = @ + 1]
    IN IF coloured_count = g.vertex_count
       THEN IF current_max_colour + 1 < b0.k
            THEN [b0 EXCEPT !.k = current_max_colour + 1, !.solution = c,
                            !.improvements = Append(@, Line(c))]
            ELSE b0
       ELSE IF Pruned(current_max_colour, b0.k) THEN b0
       ELSE LET u == select_vertex(g, c, current_max_colour)
            IN IF u = -1 THEN b0
               ELSE LET banned == {c[nb] : nb \in Adj(g, u)} \cap (0..current_max_colour)
                        b1 == try_existing(g, c, coloured_count, current_max_colour,
                                           b0, u, banned, 0)
                    IN IF NewColourAllowed(current_max_colour, b1.k)
                       THEN backtrack_exact(g, [c EXCEPT ![u] = current_max_colour + 1],
                                            coloured_count + 1, current_max_colour + 1, b1)
                       ELSE b1
try_existing(g, c, coloured_count, current_max_colour, incumbent, u, banned, col) ==
    IF col > current_max_colour THEN incumbent
    ELSE IF col \in banned
         THEN try_existing(g, c, coloured_count, current_max_colour, incumbent, u, banned, col + 1)
         ELSE try_existing(g, c, coloured_count, current_max_colour,
                           backtrack_exact(g, [c EXCEPT ![u] = col], coloured_count + 1,
                                           current_max_colour, incumbent),
                           u, banned, col + 1)

exact_search(g) ==
    LET ub_solution == colour_with_dsatur(g)
    IN backtrack_exact(g, [v \in Vertices(g.vertex_count) |-> -1], 0, -1,
                       [k |-> count_colours(ub_solution), solution |-> ub_solution, nodes |-> 0,
                        improvements |-> <<>>])

colour_with_exact(g) ==
    LET ub_solution == colour_with_dsatur(g)
        best_k == count_colours(ub_solution)
    IN IF best_k <= 1 THEN [v \in Vertices(g.vertex_count) |-> 0]
       ELSE exact_search(g).solution

\* colours[u] = c before a recursive call
Coloured(c_vec, u, c) == [v \in DOMAIN c_vec |-> IF v = u THEN c ELSE c_vec[v]]

\* variant: the vertex keeps its colour when the recursive call has returned
UncolouredNever(c_vec, u) == c_vec

\* colours[u] = -1 after a recursive call
Uncoloured(c_vec, u) == [v \in DOMAIN c_vec |-> IF v = u THEN -1 ELSE c_vec[v]]

\* variant: no colour is banned at u
banned_none(g, c_vec, u, current_max_colour) == {}

\* the colours of [0, current_max_colour] marked in banned for u
banned_colours(g, c_vec, u, current_max_colour) ==
    {c_vec[nb] : nb \in Adj(g, u)} \cap (0..current_max_colour)

\* an activation of backtrack_exact before its first statement
Activation(coloured_count, current_max_colour) ==
    [coloured_count |-> coloured_count, current_max_colour |-> current_max_colour,
     u |-> -1, banned |-> {}, c |-> 0, at |-> "entry"]

\* the activation f further on in its body
At(f, u, banned, c, at) ==
    [coloured_count |-> f.coloured_count, current_max_colour |-> f.current_max_colour,
     u |-> u, banned |-> banned, c |-> c, at |-> at]

\* the lambda rec of colour_with_exact_snapshots: one call of backtrack_exact
\* from the root, and one write_snapshot(best_sol) after it if bk fell below
\* the value it had before the call
rec_snapshots(g, ub_solution) ==
    LET before_best == count_colours(ub_solution)
        b == exact_search(g)
    IN IF b.k < before_best THEN <<Line(b.solution)>> ELSE <<>>

\* colour_with_exact_snapshots as [colour |-> returned vector, out |-> lines written]
colour_with_exact_snapshots(g) ==
    LET ub_solution == colour_with_dsatur(g)
        best_k == count_colours(ub_solution)
        zeros == [v \in Vertices(g.vertex_count) |-> 0]
        best_solution_final == exact_search(g).solution
    IN IF best_k <= 1
       THEN [colour |-> zeros, out |-> <<Line(zeros)>>]
       ELSE [colour |-> best_solution_final,
             out |-> <<Line(ub_solution)>> \o rec_snapshots(g, ub_solution)
                        \o <<Line(best_solution_final)>>]

-----------------------------------------------------------------------------
(* Greedy repair under a bounded palette *)

\* number of neighbours of vertex that currently hold colour c
count_conflicts_if_colour(g, c_vec, vertex, c) ==
    Cardinality({nb \in Adj(g, vertex) : c_vec[nb] = c})

\* variant: colour 0 whenever no colour of the palette is free
MinConflictColourZero(g, c_vec, vertex, k) == 0

\* variant: "if (conf <= best_conf)", the last colour with the fewest
\* same-coloured neighbours
MinConflictColourLast(g, c_vec, vertex, k) ==
    CHOOSE best_c \in 0..(k - 1) :
        /\ \A tryc \in 0..(k - 1) :
              count_conflicts_if_colour(g, c_vec, vertex, best_c)
                 <= count_conflicts_if_colour(g, c_vec, vertex, tryc)
        /\ \A tryc \in (best_c + 1)..(k - 1) :
              count_conflicts_if_colour(g, c_vec, vertex, best_c)
                 < count_conflicts_if_colour(g, c_vec, vertex, tryc)

\* the scan "if (conf < best_conf)" over tryc = 0..palette_k-1: the first
\* colour with the fewest same-coloured neighbours
MinConflictColour(g, c_vec, vertex, k) ==
    CHOOSE best_c \in 0..(k - 1) :
        /\ \A tryc \in 0..(k - 1) :
              count_conflicts_if_colour(g, c_vec, vertex, best_c)
                 <= count_conflicts_if_colour(g, c_vec, vertex, tryc)
        /\ \A tryc \in 0..(best_c - 1) :
              count_conflicts_if_colour(g, c_vec, vertex, best_c)
                 < count_conflicts_if_colour(g, c_vec, vertex, tryc)

\* colours of the already-coloured neighbours that lie in the palette
Banned(g, c_vec, vertex, k) ==
    {c_vec[nb] : nb \in Adj(g, vertex)} \cap (0..(k - 1))

\* variant: the seed's colour is never tried first
RepairColourIgnoringSeed(g, c_vec, sd, vertex, k) ==
    IF FirstUnused(Banned(g, c_vec, vertex, k), 0) >= k
    THEN MinConflictColour(g, c_vec, vertex, k)
    ELSE FirstUnused(Banned(g, c_vec, vertex, k), 0)

\* the colour one vertex receives in greedy_repair_fixed_k
RepairColour(g, c_vec, sd, vertex, k) ==
    LET banned == Banned(g, c_vec, vertex, k)
        preferred == sd[vertex]
        c == FirstUnused(banned, 0)
    IN IF preferred >= 0 /\ preferred < k /\ preferred \notin banned THEN preferred
       ELSE IF c >= k THEN MinConflictColour(g, c_vec, vertex, k)
       ELSE c

RECURSIVE repair_loop(_, _, _, _, _, _)
repair_loop(g, order, c_vec, sd, k, i) ==
    IF i > Len(order) THEN c_vec
    ELSE repair_loop(g, order,
                     [c_vec EXCEPT ![order[i]] = RepairColour(g, c_vec, sd, order[i], k)],
                     sd, k, i + 1)

\* genetic.cpp and the copy in the simulated-annealing unit
greedy_repair_fixed_k(g, sd, k, order) ==
    repair_loop(g, order, [v \in Vertices(g.vertex_count) |-> -1], sd, k, 1)

-----------------------------------------------------------------------------
(* Tabu search *)

count_conflicts_for_vertex(g, c_vec, vertex) ==
    Cardinality({nb \in Adj(g, vertex) : c_vec[nb] = c_vec[vertex]})

get_conflicting_vertices(g, c_vec) ==
    {u \in Vertices(g.vertex_count) : count_conflicts_for_vertex(g, c_vec, u) > 0}

\* the body of the for (int v : order) loop of initialize_colouring: every
\* vector one uniform draw among the available colours can produce
init_colouring_vertex(g, c_vec, vertex, k) ==
    LET available == (0..(k - 1)) \ Banned(g, c_vec, vertex, k)
    IN IF available # {}
       THEN {[c_vec EXCEPT ![vertex] = pick] : pick \in available}
       ELSE {[c_vec EXCEPT ![vertex] = MinConflictColour(g, c_vec, vertex, k)]}

RECURSIVE init_colouring_loop(_, _, _, _, _)
init_colouring_loop(g, order, partial, k, i) ==
    IF i > Len(order) THEN partial
    ELSE init_colouring_loop(g, order,
            UNION {init_colouring_vertex(g, c_vec, order[i], k) : c_vec \in partial},
            k, i + 1)

\* initialize_colouring: every vector the randomised greedy builder can
\* return for the given visiting order
initialize_colouring(g, k, order) ==
    init_colouring_loop(g, order, {[v \in Vertices(g.vertex_count) |-> -1]}, k, 1)

\* variant: every move passes the aspiration test
AspirationAlways(new_total_conflicts, best_this_k) == TRUE

\* aspiration: the move would beat the best total of this K-stage
Aspiration(new_total_conflicts, best_this_k) == new_total_conflicts < best_this_k

\* the selection test applied to one candidate move
SelectMove(delta, is_tabu, aspiration, sel) ==
    IF delta < sel.best_delta THEN (~is_tabu \/ aspiration)
    ELSE delta = sel.best_delta /\ sel.best_is_tabu /\ ~is_tabu

\* the double loop over conflicting vertices v (ascending) and colours
\* new_c = 0..k-1, carried as [best_v, best_new_c, best_delta, best_is_tabu]
RECURSIVE scan_moves(_, _, _, _, _, _, _, _, _)
scan_moves(g, c_vec, k, tb, it, total, best_this_k, cand, sel) ==
    IF cand = {} THEN sel
    ELSE LET v == SetMin({m[1] : m \in cand})
             new_c == SetMin({m[2] : m \in {x \in cand : x[1] = v}})
             rest == cand \ {<<v, new_c>>}
             old_conf == count_conflicts_for_vertex(g, c_vec, v)
             new_conf == count_conflicts_if_colour(g, c_vec, v, new_c)
             delta == new_conf - old_conf
             is_tabu == tb[v][new_c] > it
             aspiration == Aspiration(total + delta, best_this_k)
         IN IF SelectMove(delta, is_tabu, aspiration, sel)
            THEN scan_moves(g, c_vec, k, tb, it, total, best_this_k, rest,
                            [best_v |-> v, best_new_c |-> new_c, best_delta |-> delta,
                             best_is_tabu |-> (is_tabu /\ ~aspiration)])
            ELSE scan_moves(g, c_vec, k, tb, it, total, best_this_k, rest, sel)

find_best_move(g, c_vec, k, tb, it, total, best_this_k) ==
    scan_moves(g, c_vec, k, tb, it, total, best_this_k,
               {m \in get_conflicting_vertices(g, c_vec) \X (0..(k - 1)) : m[2] # c_vec[m[1]]},
               [best_v |-> -1, best_new_c |-> -1, best_delta |-> IntMax, best_is_tabu |-> TRUE])

\* "Apply the move": iteration t takes vertex v from colour from to colour to
AppliedMove(g, c_vec, k, tb, it, total, best_this_k) ==
    LET sel == find_best_move(g, c_vec, k, tb, it, total, best_this_k)
    IN [t |-> it, v |-> sel.best_v, from |-> c_vec[sel.best_v], to |-> sel.best_new_c]

\* one pass through the body of the for (iter ...) loop of colour_with_tabu;
\* done = TRUE when the body ends in a break
tabu_iteration(g, k, tenure, s) ==
    LET conflicting == get_conflicting_vertices(g, s.work)
        sel == find_best_move(g, s.work, k, s.tabu, s.iter, s.conflicts, s.best_conflicts_this_k)
        old_c == s.work[sel.best_v]
        moved == [s.work EXCEPT ![sel.best_v] = sel.best_new_c]
        total == s.conflicts + sel.best_delta
    IN IF conflicting = {}
       THEN [s EXCEPT !.best_solution = s.work, !.found = TRUE, !.done = TRUE]
       ELSE IF sel.best_v < 0
       THEN [s EXCEPT !.done = TRUE]
       ELSE [work |-> moved,
             conflicts |-> total,
             tabu |-> [s.tabu EXCEPT ![sel.best_v][old_c] = s.iter + tenure],
             best_conflicts_this_k |-> Min(total, s.best_conflicts_this_k),
             best_solution |-> IF total = 0 THEN moved ELSE s.best_solution,
             found |-> (total = 0),
             iter |-> IF total = 0 THEN s.iter ELSE s.iter + 1,
             done |-> (total = 0)]

\* the fallback greedy of colour_with_tabu: the vector starts all zero, so
\* unvisited neighbours count as colour 0
RECURSIVE tabu_fallback_loop(_, _, _)
tabu_fallback_loop(g, fallback, v) ==
    IF v >= g.vertex_count THEN fallback
    ELSE LET used == {fallback[nb] : nb \in Adj(g, v)}
         IN tabu_fallback_loop(g, [fallback EXCEPT ![v] = FirstUnused(used, 0)], v + 1)

tabu_fallback(g) == tabu_fallback_loop(g, [v \in Vertices(g.vertex_count) |-> 0], 0)

\* variant: the descent starts one colour lower, at the maximum degree
StartPaletteAtMaxDegree(g) == max_degree(g)

\* start_k / start_palette of Tabu and SA
StartPalette(g) ==
    IF g.vertex_count < max_degree(g) + 1 THEN g.vertex_count ELSE max_degree(g) + 1

\* colour_with_tabu_snapshots keeps its own best_solution, best_k and
\* global_best_conflicts and writes to out; sn is the record of these locals.
\* "Write initial state for this k": the test on the fresh colouring c_vec
tabu_snapshots_stage(k, c_vec, total, sn) ==
    IF total < sn.global_best_conflicts \/ (total = 0 /\ k < sn.best_k)
    THEN [sn EXCEPT !.out = write_snapshot(@, c_vec),
                    !.best_solution = IF total = 0 THEN c_vec ELSE @,
                    !.best_k = IF total = 0 THEN k ELSE @,
                    !.global_best_conflicts = IF total < @ THEN total ELSE @]
    ELSE sn

\* one pass through the loop body of colour_with_tabu_snapshots: s holds the
\* stage locals before the pass and t what tabu_iteration makes of them
tabu_snapshots_iteration(g, k, s, t, sn) ==
    IF get_conflicting_vertices(g, s.work) = {}
    THEN [sn EXCEPT !.best_solution = s.work, !.best_k = k, !.out = write_snapshot(@, s.work)]
    ELSE IF t.done /\ ~t.found
    THEN sn
    ELSE LET improved == t.conflicts < s.best_conflicts_this_k
             written == improved /\ (t.conflicts < sn.global_best_conflicts \/ t.conflicts = 0)
         IN [sn EXCEPT !.out = IF written THEN write_snapshot(@, t.work) ELSE @,
                       !.global_best_conflicts = IF written THEN Min(@, t.conflicts) ELSE @,
                       !.best_solution = IF t.conflicts = 0 THEN t.work ELSE @,
                       !.best_k = IF t.conflicts = 0 THEN k ELSE @]

\* "Write final best solution" and the fallback of colour_with_tabu_snapshots
tabu_snapshots_return(g, sn) ==
    LET returned == IF sn.best_solution # <<>> THEN sn.best_solution ELSE tabu_fallback(g)
    IN [sn EXCEPT !.out = write_snapshot(@, returned), !.result = returned]

-----------------------------------------------------------------------------
(* Simulated annealing *)

\* variant: every neighbour counts, whatever its colour
count_conflicts_local_any_colour(g, c_vec, vertex) == Cardinality(Adj(g, vertex))

count_conflicts_local(g, c_vec, vertex) ==
    Cardinality({nb \in Adj(g, vertex) :
                    nb >= 0 /\ nb < g.vertex_count /\ c_vec[nb] = c_vec[vertex]})

count_colour_usage(c_vec) ==
    LET maxc == SetMax({c_vec[v] : v \in DOMAIN c_vec})
    IN IF maxc >= 0 THEN maxc + 1 ELSE 0

\* const int iters = std::max(1000, n * 50)
sa_iters(g) == Max(1000, g.vertex_count * 50)

\* the seeds colour_dist(rng) can draw: one value of 0..max(0, palette_k-1) per vertex
RandomSeeds(g, k) == [Vertices(g.vertex_count) -> 0..Max(0, k - 1)]

\* the proposals for newc: up to nine draws that differ from oldc, then the
\* first other colour of the palette; with a single colour newc = 0
ProposedColours(k, oldc) ==
    IF k > 1 THEN (0..(k - 1)) \ {oldc} ELSE {0}

\* the update of best_overall after an accepted move
sa_best_overall(b, c_vec, total) ==
    IF total < b.conflicts \/ (total = b.conflicts /\ count_colour_usage(c_vec) < b.k)
    THEN [colours |-> c_vec, conflicts |-> total, k |-> count_colour_usage(c_vec)]
    ELSE b

\* variant: the return statements test best_overall before best_valid_solution
sa_result_overall_first(best_valid_solution, b, c_vec) ==
    IF b.colours # <<>> THEN b.colours
    ELSE IF best_valid_solution # <<>> THEN best_valid_solution
    ELSE c_vec

\* the three return statements that end colour_with_simulated_annealing
\* when a stage fails
sa_result(best_valid_solution, b, c_vec) ==
    IF best_valid_solution # <<>> THEN best_valid_solution
    ELSE IF b.colours # <<>> THEN b.colours
    ELSE c_vec

\* SAStep{step_counter++, v + 1, colours[v] + 1}: vertex and colour are
\* recorded 1-based (the running step number is not read again)
SAStep(v, c) == [vertex |-> v + 1, color |-> c + 1]

\* colour_with_simulated_annealing_snapshots replays the steps on a frame
\* that starts all -1 and writes the frame after each step; sn.frame is the
\* frame after the steps recorded so far and sn.out the lines they produce
sa_snapshots_step(g, sn, step) ==
    LET v0 == Max(0, step.vertex - 1)
        frame == IF v0 < g.vertex_count
                 THEN [sn.frame EXCEPT ![v0] = Max(0, step.color - 1)]
                 ELSE sn.frame
    IN [sn EXCEPT !.frame = frame, !.out = write_snapshot(@, frame)]

\* "record initial assignment if animating": one step per vertex, v = 0..n-1
RECURSIVE sa_snapshots_stage(_, _, _, _)
sa_snapshots_stage(g, sn, c_vec, v) ==
    IF v >= g.vertex_count THEN sn
    ELSE sa_snapshots_stage(g, sa_snapshots_step(g, sn, SAStep(v, c_vec[v])), c_vec, v + 1)

\* variant: the file ends with the frame of the last step
sa_snapshots_return_last_frame(sn, returned) == [sn EXCEPT !.result = returned]

\* "ensure final frame": the returned vector closes the file unless no step
\* was recorded
sa_snapshots_return(sn, returned) ==
    [sn EXCEPT !.out = IF Len(@) > 0 THEN write_snapshot(@, returned) ELSE @,
               !.result = returned]

-----------------------------------------------------------------------------
(* Genetic algorithm.  The population is a std::vector that the code only    *)
(* reads through std::sort by fitness (ties in unspecified order), uniform   *)
(* index draws and whole-vector scans, so it is kept as a bag of             *)
(* Individuals; wherever the code takes "the first" of several equally fit   *)
(* individuals, any of them can be the one.                                  *)

\* population_size | 1
BitOrOne(x) == IF x % 2 = 1 THEN x ELSE x + 1

\* population_size = std::max(6, population_size | 1)
ga_population_size(requested) == Max(6, BitOrOne(requested))

\* start_palette with its HARD_CAP
ga_start_palette(g) ==
    LET maxdeg == max_degree(g)
        start_palette == Min(maxdeg + 1, Max(50, maxdeg + 1))
        HARD_CAP == Max(200, start_palette)
    IN IF start_palette > HARD_CAP THEN HARD_CAP ELSE start_palette

\* variant: a conflict weighs as much as a colour
compute_fitness_unweighted(conflict_count, colour_usage, n) == conflict_count + colour_usage

compute_fitness(conflict_count, colour_usage, n) == conflict_count * n + colour_usage

\* an Individual after evaluate
evaluate(c_vec, g) ==
    [colours |-> c_vec,
     conflicts |-> count_conflicts(g, c_vec),
     colour_usage |-> count_colour_usage(c_vec),
     fitness |-> compute_fitness(count_conflicts(g, c_vec), count_colour_usage(c_vec),
                                 g.vertex_count)]

\* one-point crossover at cut, every gene clamped into 0..palette-1
crossover(a, b, cut, palette) ==
    [i \in DOMAIN a.colours |->
        LET gene == IF i < cut THEN a.colours[i] ELSE b.colours[i]
        IN IF gene < 0 THEN 0
           ELSE IF gene >= palette THEN palette - 1
           ELSE gene]

\* mutate: either chance(rng) >= mutation_rate and nothing happens, or one
\* vertex receives a uniformly drawn colour; chance is drawn from [0, 1), so
\* a rate of 0 never mutates and a rate of 1 always does (rate in hundredths)
mutate(c_vec, palette, rate) ==
    (IF rate < 100 THEN {c_vec} ELSE {})
    \cup (IF rate > 0
          THEN {[c_vec EXCEPT ![idx] = c] : idx \in DOMAIN c_vec, c \in 0..(palette - 1)}
          ELSE {})

\* the members of the population with the least fitness
MinFitness(pop) ==
    {x \in BagToSet(pop) : \A y \in BagToSet(pop) : x.fitness <= y.fitness}

\* tournament_select: three uniform draws, the first of the fittest wins
tournament_winner(a, b, c) ==
    LET ab == IF b.fitness < a.fitness THEN b ELSE a
    IN IF c.fitness < ab.fitness THEN c ELSE ab

tournament_select(pop) ==
    {tournament_winner(a, b, c) : a \in BagToSet(pop), b \in BagToSet(pop), c \in BagToSet(pop)}

\* the individuals one pass of the "fill rest" loop can append
Children(g, pop, palette, rate) ==
    UNION {UNION {UNION {
        {evaluate(greedy_repair_fixed_k(g, m, palette, ord), g) :
            m \in mutate(crossover(pa, pb, cut, palette), palette, rate)}
        : ord \in DegreeOrders(g)}
        : cut \in 1..Max(1, g.vertex_count - 1)}
        : pa \in tournament_select(pop), pb \in tournament_select(pop)}

\* the individuals the initialisation of one palette stage can produce
InitialIndividuals(g, palette) ==
    {evaluate(greedy_repair_fixed_k(g, sd, palette, ord), g) :
        sd \in [Vertices(g.vertex_count) -> 0..(palette - 1)], ord \in DegreeOrders(g)}

\* all bags of m individuals drawn from S
RECURSIVE BagsOfSize(_, _)
BagsOfSize(S, m) ==
    IF m = 0 THEN {EmptyBag}
    ELSE {b (+) SetToBag({x}) : b \in BagsOfSize(S, m - 1), x \in S}

\* the first m entries std::sort by fitness can leave at the front
RECURSIVE SortedPrefixes(_, _)
SortedPrefixes(pop, m) ==
    IF m = 0 \/ pop = EmptyBag THEN {<<>>}
    ELSE UNION {{<<x>> \o rest : rest \in SortedPrefixes(pop (-) SetToBag({x}), m - 1)}
                  : x \in MinFitness(pop)}

SeqToBag(sq) == [x \in {sq[i] : i \in DOMAIN sq} |-> Cardinality({i \in DOMAIN sq : sq[i] = x})]

\* "for (ind : population) if (ind.fitness < best.fitness) best = ind": the
\* values best can hold after the scan
scan_best(pop, b) ==
    IF \E x \in BagToSet(pop) : x.fitness < b.fitness THEN MinFitness(pop) ELSE {b}

\* colour_with_genetic_snapshots: "if (best.fitness < best_fitness_overall)"
\* keeps its own best_solution and writes it
ga_snapshots_update(sn, b) ==
    IF b.fitness < sn.best_fitness_overall
    THEN [sn EXCEPT !.best_fitness_overall = b.fitness,
                    !.best_solution = b.colours,
                    !.out = write_snapshot(@, b.colours)]
    ELSE sn

\* the return of colour_with_genetic_snapshots when a palette fails: the
\* stored best_solution without a write, else the fittest of the population
ga_snapshots_failed(sn, min_ind) ==
    IF sn.best_solution # <<>>
    THEN [sn EXCEPT !.result = sn.best_solution]
    ELSE [sn EXCEPT !.out = write_snapshot(@, min_ind.colours), !.result = min_ind.colours]

\* the return after the palette loop
ga_snapshots_return(g, sn) ==
    LET returned == IF sn.best_solution # <<>> THEN sn.best_solution
                    ELSE [v \in Vertices(g.vertex_count) |-> 0]
    IN [sn EXCEPT !.out = write_snapshot(@, returned), !.result = returned]

-----------------------------------------------------------------------------
(* DIMACS loader.  A line is told apart by its first character; a and b are  *)
(* the two integers that follow ("p edge a b", "e a b").  operator>> stores   *)
(* 0 when it cannot read a number, so an unreadable number is the value 0.   *)

ProblemLine(n, m) == [lead |-> "p", a |-> n, b |-> m]

EdgeLine(u, v) == [lead |-> "e", a |-> u, b |-> v]

\* variant: the duplicate test never finds the neighbour
ContainsNothing(adj_u, v) == FALSE

\* std::find(adj_u.begin(), adj_u.end(), v) != adj_u.end()
Contains(adj_u, v) == \E i \in DOMAIN adj_u : adj_u[i] = v

\* the locals of load_graph before the first line
load_start ==
    [vertex_count |-> 0, edge_count |-> 0, adjacency_list |-> <<>>,
     edges_added |-> 0, error |-> ""]

\* the body of the while (std::getline(input, line)) loop
load_line(st, line) ==
    IF st.error # "" THEN st
    ELSE IF line.lead \in {"c", "%", "#", ""} THEN st
    ELSE IF line.lead = "p"
    THEN IF line.a <= 0
         THEN [st EXCEPT !.vertex_count = line.a, !.edge_count = line.b,
                         !.error = "Invalid vertex count"]
         ELSE [st EXCEPT !.vertex_count = line.a, !.edge_count = line.b,
                         !.adjacency_list = [u \in Vertices(line.a) |-> <<>>]]
    ELSE IF line.lead = "e"
    THEN IF DOMAIN st.adjacency_list = {}
         THEN [st EXCEPT !.error = "Encountered edge before problem line"]
         ELSE IF line.a <= 0 \/ line.b <= 0
                 \/ line.a > st.vertex_count \/ line.b > st.vertex_count
         THEN [st EXCEPT !.error = "Edge references out-of-range vertex"]
         ELSE IF line.a = line.b THEN st
         ELSE LET u == line.a - 1
                  v == line.b - 1
              IN IF Contains(st.adjacency_list[u], v) THEN st
                 ELSE [st EXCEPT !.adjacency_list[u] = Append(@, v),
                                 !.adjacency_list[v] = Append(@, u),
                                 !.edges_added = @ + 1]
    ELSE st

RECURSIVE load_lines(_, _, _)
load_lines(st, lines, i) ==
    IF i > Len(lines) THEN st ELSE load_lines(load_line(st, lines[i]), lines, i + 1)

\* load_graph: the Graph it returns, or the message of what it throws
load_graph(file) ==
    IF ~file.readable THEN [load_start EXCEPT !.error = "Failed to open graph file"]
    ELSE LET st == load_lines(load_start, file.lines, 1)
         IN IF st.error # "" THEN st
            ELSE IF st.vertex_count = 0
            THEN [st EXCEPT !.error = "Graph file missing problem line"]
            ELSE [st EXCEPT !.edge_count = st.edges_added]

\* struct Graph of a successful load
LoadedGraph(st) ==
    [vertex_count |-> st.vertex_count, edge_count |-> st.edge_count,
     adjacency_list |-> st.adjacency_list]

NoGraph == [vertex_count |-> 0, edge_count |-> 0, adjacency_list |-> <<>>]

\* the strategies only iterate over the neighbours of a vertex, so the model
\* hands them each adjacency vector as the set of its entries
AsGraph(ld) ==
    [vertex_count |-> ld.vertex_count, edge_count |-> ld.edge_count,
     adjacency_list |-> [u \in DOMAIN ld.adjacency_list |->
        {ld.adjacency_list[u][i] : i \in DOMAIN ld.adjacency_list[u]}]]

\* the edge lines of a set of 0-based pairs, in lexicographic order
RECURSIVE EdgeLines(_)
EdgeLines(E) ==
    IF E = {} THEN <<>>
    ELSE LET e == CHOOSE x \in E : \A y \in E :
                     x[1] < y[1] \/ (x[1] = y[1] /\ x[2] <= y[2])
         IN <<EdgeLine(e[1] + 1, e[2] + 1)>> \o EdgeLines(E \ {e})

\* a well-formed file that describes g
FileOf(g) ==
    [readable |-> TRUE,
     lines |-> <<ProblemLine(g.vertex_count, g.edge_count)>>
                 \o EdgeLines({e \in Pairs(g.vertex_count) : e[2] \in Adj(g, e[1])})]

\* files load_graph rejects: unreadable, empty, comments only, a vertex
\* count of 0, an edge before the problem line, endpoints out of range
MalformedFiles ==
    {[readable |-> FALSE, lines |-> <<>>],
     [readable |-> TRUE, lines |-> <<>>],
     [readable |-> TRUE, lines |-> <<[lead |-> "c", a |-> 0, b |-> 0]>>],
     [readable |-> TRUE, lines |-> <<ProblemLine(0, 0)>>],
     [readable |-> TRUE, lines |-> <<EdgeLine(1, 2), ProblemLine(2, 1)>>],
     [readable |-> TRUE, lines |-> <<ProblemLine(2, 1), EdgeLine(1, 3)>>],
     [readable |-> TRUE, lines |-> <<ProblemLine(2, 1), EdgeLine(0, 1)>>]}

\* all sequences of at most m elements of S
RECURSIVE SeqsUpTo(_, _)
SeqsUpTo(S, m) ==
    IF m = 0 THEN {<<>>}
    ELSE SeqsUpTo(S, m - 1)
         \cup {Append(sq, x) : sq \in {t \in SeqsUpTo(S, m - 1) : Len(t) = m - 1}, x \in S}

\* the files handed to load_graph directly: a problem line followed by edge
\* lines whose endpoints range over 0 (out of range or unreadable), the
\* vertices 1..n and n+1 (out of range)
LoaderFiles ==
    UNION {{[readable |-> TRUE, lines |-> <<ProblemLine(n, 0)>> \o edges] :
               edges \in SeqsUpTo({EdgeLine(u, v) : u \in 0..(n + 1), v \in 0..(n + 1)},
                                  MaxEdgeLines)}
           : n \in 1..MaxLoadN}

-----------------------------------------------------------------------------
(* Results CSV.  A file is [exists, lines]; a data row is the tuple of the   *)
(* fields of BenchmarkResult that do not depend on the clock.                *)

CsvHeader == "algorithm,graph_name,vertices,edges,colors_used,known_optimal,runtime_ms"

AbsentFile == [exists |-> FALSE, lines |-> <<>>]

EmptyFile == [exists |-> TRUE, lines |-> <<>>]

\* variant: the header is written on every call
AlwaysWriteHeader(file) == TRUE

\* write_header = !exists(csv_path) || file_size(csv_path) == 0
WriteHeader(file) == ~file.exists \/ Len(file.lines) = 0

\* append_result_csv once the stream is open
append_result_csv(file, row) ==
    [exists |-> TRUE,
     lines |-> IF WriteHeader(file) THEN file.lines \o <<CsvHeader, row>>
               ELSE Append(file.lines, row)]

\* BenchmarkResult as main fills it
ResultRow(name, g, c_vec) ==
    [algorithm_name |-> name, vertex_count |-> g.vertex_count,
     edge_count |-> g.edge_count, color_count |-> count_colours(c_vec)]

\* the rows a library caller appends
LibraryRows ==
    {[algorithm_name |-> a, vertex_count |-> 2, edge_count |-> 1, color_count |-> k] :
        a \in {"dsatur", "genetic"}, k \in {1, 2}}

\* the states the results file can be in when a run starts
ResultsFiles ==
    {AbsentFile, EmptyFile,
     [exists |-> TRUE,
      lines |-> <<CsvHeader, [algorithm_name |-> "welsh_powell", vertex_count |-> 1,
                              edge_count |-> 0, color_count |-> 1]>>]}

-----------------------------------------------------------------------------
(* Dispatcher (benchmark_runner) *)

\* build_algorithm_table: name -> entry point
build_algorithm_table ==
    [name \in {"welsh_powell", "dsatur", "simulated_annealing", "genetic", "exact_solver"} |->
        CASE name = "welsh_powell" -> "colour_with_welsh_powell"
          [] name = "dsatur" -> "colour_with_dsatur"
          [] name = "simulated_annealing" -> "colour_with_simulated_annealing"
          [] name = "genetic" -> "colour_with_genetic"
          [] name = "exact_solver" -> "colour_with_exact"]

\* values of --algorithm tried by the model
AlgorithmNames ==
    {"welsh_powell", "dsatur", "simulated_annealing", "genetic", "tabu_search",
     "exact_solver", "DSATUR", "tabu", "unknown"}

DeterministicEntries ==
    {"colour_with_welsh_powell", "colour_with_dsatur", "colour_with_exact"}

\* graphs on which the annealer and the genetic strategy are run
SAGraphs == AllGraphs(2) \cup {PathGraph(3)}

GAGraphs == AllGraphs(2)

InputGraphs(name) ==
    CASE name \in {"welsh_powell", "dsatur", "exact_solver"} -> AllGraphs(MaxN) \cup ScenarioGraphs
      [] name = "simulated_annealing" -> SAGraphs
      [] name = "genetic" -> GAGraphs
      [] OTHER -> AllGraphs(MaxN)

VertexPermutations(n) ==
    {p \in [Vertices(n) -> Vertices(n)] : \A u, v \in Vertices(n) : u # v => p[u] # p[v]}

\* the graph with every vertex v renamed p[v]
PermuteGraph(g, p) ==
    [vertex_count |-> g.vertex_count,
     edge_count |-> g.edge_count,
     adjacency_list |-> [x \in Vertices(g.vertex_count) |->
        LET v == CHOOSE w \in Vertices(g.vertex_count) : p[w] = x
        IN {p[w] : w \in Adj(g, v)}]]

\* the results a deterministic entry point can return on g
Results(entry, g) ==
    CASE entry = "colour_with_welsh_powell" ->
            {colour_with_welsh_powell(g, order) : order \in DegreeOrders(g)}
      [] entry = "colour_with_dsatur" -> {colour_with_dsatur(g)}
      [] entry = "colour_with_exact" -> {colour_with_exact(g)}

\* the locals of a *_snapshots variant before it starts.  best_fitness_overall
\* starts at numeric_limits<long long>::max(), which no fitness reaches; IntMax
\* stands for it
IdleSnapshot ==
    [out |-> <<>>, result |-> <<>>, best_solution |-> <<>>, best_k |-> IntMax,
     global_best_conflicts |-> IntMax, best_fitness_overall |-> IntMax, frame |-> <<>>]

\* the locals of the strategies before any of them has started
IdleLocals ==
    /\ seed = <<>>
    /\ repair_order = <<>>
    /\ palette_k = 0
    /\ work = <<>>
    /\ conflicts = 0
    /\ best_solution = <<>>
    /\ recorded = {}
    /\ iter = 0
    /\ tabu = <<>>
    /\ moves = <<>>
    /\ best_conflicts_this_k = 0
    /\ best_overall = [colours |-> <<>>, conflicts |-> IntMax, k |-> IntMax]
    /\ best_valid_k = IntMax
    /\ population = <<>>
    /\ best = <<>>
    /\ next_pop = <<>>
    /\ evaluated = {}
    /\ snapshot = IdleSnapshot
    /\ improvements = <<>>
    /\ stack = <<>>
    /\ dsatur = <<>>
    /\ popped = <<>>

\* no file has been touched and nothing was thrown
IdleIo ==
    /\ error = ""
    /\ rows_appended = <<>>
    /\ output_file = AbsentFile

\* parse_arguments: --population-size below 2 becomes 2, --generations
\* below 1 becomes 1, --mutation-rate is brought into [0, 1] (hundredths)
parse_population_size(x) == IF x < 2 THEN 2 ELSE x

parse_generations(x) == IF x < 1 THEN 1 ELSE x

parse_mutation_rate(x) == IF x < 0 THEN 0 ELSE IF x > 100 THEN 100 ELSE x

\* Options as parse_arguments leaves them when only --algorithm and --input
\* are given
DefaultOptions ==
    [output_path |-> "", results_path |-> "", save_snapshots |-> FALSE,
     population_size |-> DefaultPopulationSize, max_generations |-> DefaultMaxGenerations,
     mutation_rate |-> DefaultMutationRate]

\* the genetic tuning the command line can set
GAOptions ==
    {DefaultOptions}
    \cup {[DefaultOptions EXCEPT !.population_size = parse_population_size(p),
                                 !.max_generations = parse_generations(m)] :
             p \in 0..MaxPopulationArg, m \in 0..MaxGenerationsArg}

\* a numeric flag of the command line: absent, or present with a text that
\* std::stoi / std::stod either converts to value or rejects by throwing
NoFlag == [given |-> FALSE, parses |-> TRUE, value |-> 0]

Flag(x) == [given |-> TRUE, parses |-> TRUE, value |-> x]

BadFlag == [given |-> TRUE, parses |-> FALSE, value |-> 0]

\* the command line after --algorithm NAME: whether --input, --output,
\* --results and --save-snapshots are given, the three genetic flags, and
\* whether an argument parse_arguments does not know is present
PlainArgv ==
    [input |-> TRUE, output |-> FALSE, results |-> FALSE, save_snapshots |-> FALSE,
     population_size |-> NoFlag, generations |-> NoFlag, mutation_rate |-> NoFlag,
     unknown_argument |-> FALSE]

\* parse_arguments: [error |-> what() of the exception, "" if none; options]
parse_arguments(name, args) ==
    LET numeric(f, dflt, clamp(_)) == IF f.given /\ f.parses THEN clamp(f.value) ELSE dflt
        opts == [output_path |-> IF args.output THEN "colouring.txt" ELSE "",
                 results_path |-> IF args.results THEN "results.csv" ELSE "",
                 save_snapshots |-> args.save_snapshots,
                 population_size |-> numeric(args.population_size, DefaultPopulationSize,
                                             parse_population_size),
                 max_generations |-> numeric(args.generations, DefaultMaxGenerations,
                                             parse_generations),
                 mutation_rate |-> numeric(args.mutation_rate, DefaultMutationRate,
                                           parse_mutation_rate)]
        err == IF ~args.population_size.parses \/ ~args.generations.parses THEN "stoi"
               ELSE IF ~args.mutation_rate.parses THEN "stod"
               ELSE IF args.unknown_argument THEN "Unknown argument"
               ELSE IF name = "" THEN "--algorithm is required"
               ELSE IF ~args.input THEN "--input is required"
               ELSE ""
    IN [error |-> err, options |-> opts]

\* the state of main after parse_arguments and load_graph
InitMain ==
    /\ caller = "main"
    /\ algorithm \in AlgorithmNames
    /\ graph \in InputGraphs(algorithm)
    /\ argv = PlainArgv
    /\ input_file = FileOf(graph)
    /\ loaded = LoadedGraph(load_graph(input_file))
    /\ options \in (IF algorithm = "genetic" THEN GAOptions ELSE {DefaultOptions})
    /\ pc = "main"
    /\ strategy = "none"
    /\ colours = <<>>
    /\ exit_code = -1
    /\ pi = <<>>
    /\ colours_pi = <<>>
    /\ IdleLocals
    /\ IdleIo
    /\ results_csv = AbsentFile
    /\ results_before = AbsentFile
    /\ max_iterations = 0
    /\ tabu_tenure = 0
    /\ population_size = options.population_size
    /\ max_generations = options.max_generations
    /\ mutation_rate = options.mutation_rate

\* colour_with_tabu(graph) computes its two parameters; the three-argument
\* overload takes them from the caller
TabuArguments(g) ==
    {[max_iterations |-> Max(10000, g.vertex_count * 100),
      tabu_tenure |-> Max(7, g.vertex_count \div 10)]}
    \cup {[max_iterations |-> m, tabu_tenure |-> t] :
             m \in 1..MaxIterationsArg, t \in 1..MaxTenureArg}

TabuGraphs == AllGraphs(MaxTabuN) \cup {K23MinusEdge}

\* a call from a program other than benchmark_runner: no command line, no
\* files of main
LibraryCall ==
    /\ caller = "library"
    /\ algorithm = ""
    /\ argv = <<>>
    /\ options = <<>>
    /\ colours = <<>>
    /\ exit_code = -1
    /\ pi = <<>>
    /\ colours_pi = <<>>
    /\ IdleIo

\* the call reads no graph file and has no results file
NoFiles ==
    /\ input_file = <<>>
    /\ loaded = <<>>
    /\ results_csv = AbsentFile
    /\ results_before = AbsentFile

\* a direct call of colour_with_tabu (tabu.h); the dispatcher has no entry for it
InitTabu ==
    /\ LibraryCall
    /\ NoFiles
    /\ graph \in TabuGraphs
    /\ pc = "call"
    /\ strategy = "colour_with_tabu"
    /\ IdleLocals
    /\ \E a \in TabuArguments(graph) :
          max_iterations = a.max_iterations /\ tabu_tenure = a.tabu_tenure
    /\ population_size = 0
    /\ max_generations = 0
    /\ mutation_rate = 0

\* no argument of Tabu or GA is in use
IdleArguments ==
    /\ max_iterations = 0
    /\ tabu_tenure = 0
    /\ population_size = 0
    /\ max_generations = 0
    /\ mutation_rate = 0

\* the graphs the step-wise runs of Exact and DSATUR are taken on: every
\* graph of up to MaxSearchN vertices and the scenario graphs, on one of
\* which DSATUR is not optimal
MaxSearchN == 4
ExactGraphs == AllGraphs(MaxSearchN) \cup ScenarioGraphs

\* the locals no palette stage of Tabu or SA has touched yet
StageLocals ==
    /\ colours = <<>>
    /\ seed = <<>>
    /\ repair_order = <<>>
    /\ work = <<>>
    /\ conflicts = 0
    /\ iter = 0
    /\ tabu = <<>>
    /\ moves = <<>>
    /\ best_conflicts_this_k = 0
    /\ best_overall = [colours |-> <<>>, conflicts |-> IntMax, k |-> IntMax]
    /\ population = <<>>
    /\ best = <<>>
    /\ next_pop = <<>>
    /\ evaluated = {}
    /\ snapshot = IdleSnapshot
    /\ improvements = <<>>
    /\ stack = <<>>
    /\ dsatur = <<>>
    /\ popped = <<>>
    /\ population_size = 0
    /\ max_generations = 0
    /\ mutation_rate = 0

\* colour_with_tabu(TabuTie7, MaxStageIterations, 7) at the head of the
\* stage k = 3: the stages k = 6, 5 and 4 have each recorded the colouring of
\* initialize_colouring, which is conflict-free for every draw at these
\* palettes; best_solution is one of the colourings the stage k = 4 can leave
InitTabuStage ==
    /\ LibraryCall
    /\ NoFiles
    /\ graph = TabuTie7
    /\ pc = "tabu_stage"
    /\ strategy = "colour_with_tabu"
    /\ palette_k = 3
    /\ best_solution = CHOOSE c \in initialize_colouring(graph, 4,
                                       CHOOSE o \in DegreeOrders(graph) : TRUE) :
                           count_conflicts(graph, c) = 0
    /\ recorded = {count_colours(best_solution)}
    /\ best_valid_k = IntMax
    /\ max_iterations = MaxStageIterations
    /\ tabu_tenure = Max(7, graph.vertex_count \div 10)
    /\ StageLocals

\* colour_with_simulated_annealing on the triangle at the head of the stage
\* palette_k = 2: the stage palette_k = 3 has recorded the colouring of
\* greedy_repair_fixed_k, which is conflict-free for every seed
InitSAStage ==
    /\ LibraryCall
    /\ NoFiles
    /\ graph = CompleteGraph(3)
    /\ pc = "sa_stage"
    /\ strategy = "colour_with_simulated_annealing"
    /\ palette_k = 2
    /\ best_solution = CHOOSE c \in {greedy_repair_fixed_k(graph, sd, 3, o) :
                                        sd \in RandomSeeds(graph, 3),
                                        o \in DegreeOrders(graph)} :
                           count_conflicts(graph, c) = 0
    /\ recorded = {count_colour_usage(best_solution)}
    /\ best_valid_k = count_colour_usage(best_solution)
    /\ max_iterations = 0
    /\ tabu_tenure = 0
    /\ StageLocals

\* two of the Individuals the first palette stage of colour_with_genetic can
\* evaluate on g: one of the largest and one of the least colour_usage
FirstStage(g) ==
    LET first == InitialIndividuals(g, ga_start_palette(g))
        usage == {x.colour_usage : x \in first}
    IN {CHOOSE x \in first : x.colour_usage = SetMax(usage),
        CHOOSE x \in first : x.colour_usage = SetMin(usage)}

\* colour_with_genetic(g, 6, 1, DefaultMutationRate) after its first palette
\* stage, whose population held the Individuals of FirstStage(g); the stage
\* is conflict-free for every draw and recorded its fittest Individual
GAAfterFirstStage(g) ==
    /\ LibraryCall
    /\ NoFiles
    /\ graph = g
    /\ strategy = "colour_with_genetic"
    /\ palette_k = ga_start_palette(g) - 1
    /\ best_solution = (CHOOSE x \in FirstStage(g) :
                            \A y \in FirstStage(g) : x.fitness <= y.fitness).colours
    /\ recorded = {count_colour_usage(best_solution)}
    /\ best_valid_k = count_colour_usage(best_solution)
    /\ population_size = 6
    /\ max_generations = 1
    /\ mutation_rate = DefaultMutationRate
    /\ colours = <<>>
    /\ seed = <<>>
    /\ repair_order = <<>>
    /\ work = <<>>
    /\ conflicts = 0
    /\ iter = 0
    /\ tabu = <<>>
    /\ moves = <<>>
    /\ best_conflicts_this_k = 0
    /\ max_iterations = 0
    /\ tabu_tenure = 0
    /\ best_overall = [colours |-> <<>>, conflicts |-> IntMax, k |-> IntMax]
    /\ next_pop = <<>>
    /\ snapshot = IdleSnapshot
    /\ improvements = <<>>
    /\ stack = <<>>
    /\ dsatur = <<>>
    /\ popped = <<>>

\* the path 0-1-2 at the head of the stage palette_k = 2
InitGAStage ==
    /\ GAAfterFirstStage(PathGraph(3))
    /\ pc = "ga_stage"
    /\ population = <<>>
    /\ best = <<>>
    /\ evaluated = FirstStage(graph)

\* the triangle at the head of the generational loop of the stage
\* palette_k = 2, with a population of three copies each of two Individuals
InitGAGeneration ==
    /\ GAAfterFirstStage(CompleteGraph(3))
    /\ pc = "ga_gen"
    /\ LET x == CHOOSE i \in InitialIndividuals(graph, palette_k) : TRUE
       IN \E y \in InitialIndividuals(graph, palette_k) \ {x} :
             /\ population = [i \in {x, y} |-> 3]
             /\ best \in MinFitness(population)
             /\ evaluated = FirstStage(graph) \cup {x, y}

\* the locals of the strategies other than greedy_repair_fixed_k
NoStrategyLocals ==
    /\ work = <<>>
    /\ conflicts = 0
    /\ best_solution = <<>>
    /\ recorded = {}
    /\ iter = 0
    /\ tabu = <<>>
    /\ moves = <<>>
    /\ best_conflicts_this_k = 0
    /\ best_overall = [colours |-> <<>>, conflicts |-> IntMax, k |-> IntMax]
    /\ best_valid_k = IntMax
    /\ population = <<>>
    /\ best = <<>>
    /\ next_pop = <<>>
    /\ evaluated = {}
    /\ snapshot = IdleSnapshot
    /\ improvements = <<>>
    /\ stack = <<>>
    /\ dsatur = <<>>
    /\ popped = <<>>
    /\ max_iterations = 0
    /\ tabu_tenure = 0
    /\ population_size = 0
    /\ max_generations = 0
    /\ mutation_rate = 0

\* the seeds handed to greedy_repair_fixed_k: entries range over -1, the
\* palette and one value beyond it; on the largest graph every entry of a
\* seed is the same
RepairSeeds(g, k) ==
    IF g.vertex_count <= MaxSeedN
    THEN [Vertices(g.vertex_count) -> (-1)..k]
    ELSE {[v \in Vertices(g.vertex_count) |-> s] : s \in (-1)..k}

\* a direct call of greedy_repair_fixed_k(graph, seed, palette_k), on every
\* small graph and on the complete graphs with 4 and 5 vertices
InitRepair ==
    /\ LibraryCall
    /\ NoFiles
    /\ graph \in AllGraphs(MaxRepairN) \cup {CompleteGraph(4), CompleteGraph(5)}
    /\ pc = "call"
    /\ strategy = "greedy_repair_fixed_k"
    /\ palette_k \in 1..MaxRepairK
    /\ seed \in RepairSeeds(graph, palette_k)
    /\ repair_order = <<>>
    /\ NoStrategyLocals

Init == InitMain \/ InitTabu \/ InitRepair

\* the graphs each *_snapshots entry point is called on
SnapshotGraphs(entry) ==
    CASE entry \in {"colour_with_welsh_powell_snapshots", "colour_with_dsatur_snapshots"} ->
            AllGraphs(MaxN) \cup ScenarioGraphs
      [] entry = "colour_with_exact_snapshots" ->
            AllGraphs(MaxN) \cup ScenarioGraphs \cup {ExactTwoStep11}
      [] entry = "colour_with_tabu_snapshots" -> AllGraphs(MaxTabuN)
      [] OTHER -> SAGraphs

\* a direct call of one of the six *_snapshots entry points.  The Tabu
\* variant computes max_iterations and tabu_tenure itself; the genetic one
\* takes its tuning from the caller
InitSnapshots ==
    /\ LibraryCall
    /\ NoFiles
    /\ strategy \in {"colour_with_dsatur_snapshots", "colour_with_welsh_powell_snapshots",
                      "colour_with_genetic_snapshots", "colour_with_simulated_annealing_snapshots",
                      "colour_with_exact_snapshots", "colour_with_tabu_snapshots"}
    /\ graph \in SnapshotGraphs(strategy)
    /\ pc = "call"
    /\ IdleLocals
    /\ max_iterations = IF strategy = "colour_with_tabu_snapshots"
                        THEN Max(10000, graph.vertex_count * 100) ELSE 0
    /\ tabu_tenure = IF strategy = "colour_with_tabu_snapshots"
                     THEN Max(7, graph.vertex_count \div 10) ELSE 0
    /\ IF strategy = "colour_with_genetic_snapshots"
       THEN /\ population_size \in 2..MaxPopulationArg
            /\ max_generations \in 1..MaxGenerationsArg
            /\ mutation_rate = DefaultMutationRate
       ELSE /\ population_size = 0
            /\ max_generations = 0
            /\ mutation_rate = 0

\* the command lines benchmark_runner is started with: the I/O flags in every
\* combination, each numeric flag below, inside and above its range or
\* unreadable, an unknown argument, and a missing --input
CommandLines ==
    {[PlainArgv EXCEPT !.output = o, !.results = r, !.save_snapshots = sn] :
        o \in BOOLEAN, r \in BOOLEAN, sn \in BOOLEAN}
    \cup {[PlainArgv EXCEPT !.results = TRUE, !.population_size = f] :
             f \in {Flag(x) : x \in 0..MaxPopulationArg} \cup {BadFlag}}
    \cup {[PlainArgv EXCEPT !.results = TRUE, !.generations = f] :
             f \in {Flag(x) : x \in 0..MaxGenerationsArg} \cup {BadFlag}}
    \cup {[PlainArgv EXCEPT !.results = TRUE, !.mutation_rate = f] :
             f \in {Flag(-50), Flag(0), Flag(50), Flag(100), Flag(150), BadFlag}}
    \cup {[PlainArgv EXCEPT !.results = TRUE, !.unknown_argument = TRUE],
          [PlainArgv EXCEPT !.results = TRUE, !.input = FALSE]}

\* benchmark_runner from its first instruction; "" is a command line without
\* --algorithm
InitCommand ==
    /\ caller = "main"
    /\ algorithm \in {"", "welsh_powell", "dsatur", "exact_solver", "simulated_annealing",
                       "genetic", "tabu_search"}
    /\ argv \in CommandLines
    /\ input_file \in {FileOf(g) : g \in AllGraphs(MaxLoadN)} \cup MalformedFiles
    /\ graph = NoGraph
    /\ loaded = NoGraph
    /\ options = DefaultOptions
    /\ results_csv \in (IF argv.results THEN ResultsFiles ELSE {AbsentFile})
    /\ results_before = results_csv
    /\ pc = "parse"
    /\ strategy = "none"
    /\ colours = <<>>
    /\ exit_code = -1
    /\ pi = <<>>
    /\ colours_pi = <<>>
    /\ IdleLocals
    /\ IdleIo
    /\ max_iterations = 0
    /\ tabu_tenure = 0
    /\ population_size = 0
    /\ max_generations = 0
    /\ mutation_rate = 0

\* a direct call of load_graph (utils.h)
InitLoad ==
    /\ LibraryCall
    /\ input_file \in LoaderFiles \cup MalformedFiles
    /\ graph = NoGraph
    /\ loaded = NoGraph
    /\ results_csv = AbsentFile
    /\ results_before = AbsentFile
    /\ pc = "load"
    /\ strategy = "load_graph"
    /\ seed = <<>>
    /\ repair_order = <<>>
    /\ palette_k = 0
    /\ NoStrategyLocals

\* a caller that appends rows to one results file (utils.h)
InitCsv ==
    /\ LibraryCall
    /\ input_file = <<>>
    /\ loaded = <<>>
    /\ graph = NoGraph
    /\ results_csv \in ResultsFiles
    /\ results_before = results_csv
    /\ pc = "csv"
    /\ strategy = "append_result_csv"
    /\ seed = <<>>
    /\ repair_order = <<>>
    /\ palette_k = 0
    /\ NoStrategyLocals

\* variant: the catch block of main returns 0 as well
exit_status_always_zero(thrown) == 0

\* main: "return 0" at the end of the try block, "return 1" in the catch
\* block; thrown is what() of the exception, "" if none was thrown
exit_status(thrown) == IF thrown = "" THEN 0 ELSE 1

\* main with --save-snapshots: the variant called for each algorithm name
\* (an algorithm without one falls back to its table entry)
snapshot_entry(name) ==
    CASE name = "dsatur" -> "colour_with_dsatur_snapshots"
      [] name = "welsh_powell" -> "colour_with_welsh_powell_snapshots"
      [] name = "genetic" -> "colour_with_genetic_snapshots"
      [] name = "simulated_annealing" -> "colour_with_simulated_annealing_snapshots"
      [] name = "exact_solver" -> "colour_with_exact_snapshots"
      [] OTHER -> build_algorithm_table[name]

\* the entry point running is a *_snapshots variant; the model runs it side
\* by side with its plain counterpart on the same random draws: colours is
\* what the counterpart returns, snapshot.result what the variant returns
Snapshots ==
    strategy \in {"colour_with_dsatur_snapshots", "colour_with_welsh_powell_snapshots",
                  "colour_with_genetic_snapshots", "colour_with_simulated_annealing_snapshots",
                  "colour_with_exact_snapshots", "colour_with_tabu_snapshots"}

\* the vector the call hands back to its caller
ReturnedVector == IF Snapshots THEN snapshot.result ELSE colours

\* main: parse_arguments; whatever it throws is caught: diagnostic, exit code 1
ParseArguments ==
    /\ pc = "parse"
    /\ LET parsed == parse_arguments(algorithm, argv)
       IN /\ options' = parsed.options
          /\ error' = parsed.error
          /\ IF parsed.error = ""
             THEN pc' = "load" /\ exit_code' = exit_code
             ELSE pc' = "exit" /\ exit_code' = exit_status(parsed.error)
    /\ UNCHANGED <<graph, caller, algorithm, argv, input_file, loaded, strategy, colours,
                   results_csv, results_before, rows_appended, output_file, isoVars, runVars>>

\* load_graph(options.input_path), called by main or directly
LoadGraph ==
    /\ pc = "load"
    /\ LET st == load_graph(input_file)
       IN /\ error' = st.error
          /\ IF st.error = ""
             THEN /\ loaded' = LoadedGraph(st)
                  /\ graph' = AsGraph(LoadedGraph(st))
                  /\ pc' = IF caller = "main" THEN "main" ELSE "returned"
                  /\ exit_code' = exit_code
             ELSE /\ UNCHANGED <<loaded, graph>>
                  /\ pc' = IF caller = "main" THEN "exit" ELSE "threw"
                  /\ exit_code' = IF caller = "main" THEN exit_status(st.error) ELSE exit_code
    /\ UNCHANGED <<caller, algorithm, argv, input_file, options, strategy, colours,
                   results_csv, results_before, rows_appended, output_file, isoVars, runVars>>

\* main: strategies.find(options.algorithm); an unknown name throws
\* std::invalid_argument, which main catches: diagnostic and exit code 1
MainLookup ==
    /\ pc = "main"
    /\ IF algorithm \in DOMAIN build_algorithm_table
       THEN /\ strategy' = IF options.save_snapshots THEN snapshot_entry(algorithm)
                           ELSE build_algorithm_table[algorithm]
            /\ pc' = "call"
            /\ UNCHANGED <<exit_code, error>>
       ELSE /\ strategy' = strategy
            /\ pc' = "exit"
            /\ exit_code' = exit_status("Unknown algorithm")
            /\ error' = "Unknown algorithm"
    /\ UNCHANGED <<mainVars, colours, results_csv, results_before, rows_appended, output_file,
                   isoVars, runVars>>

\* create_directories or the std::ofstream of the snapshots file fails: the
\* variant throws std::runtime_error before it has written a line (the
\* annealer opens the file after its run, with the same outcome)
SnapshotOpenFails ==
    /\ pc = "call"
    /\ Snapshots
    /\ error' = "Failed to open snapshots file"
    /\ pc' = IF caller = "main" THEN "exit" ELSE "threw"
    /\ exit_code' = IF caller = "main" THEN exit_status(error') ELSE exit_code
    /\ UNCHANGED <<mainVars, strategy, colours, results_csv, results_before, rows_appended,
                   output_file, isoVars, runVars>>

WelshPowell ==
    /\ pc = "call"
    /\ strategy \in {"colour_with_welsh_powell", "colour_with_welsh_powell_snapshots"}
    /\ \E order \in DegreeOrders(graph) :
          /\ colours' = colour_with_welsh_powell(graph, order)
          /\ snapshot' = IF Snapshots
                         THEN LET r == colour_with_welsh_powell_snapshots(graph, order)
                              IN [snapshot EXCEPT !.out = r.out, !.result = r.colour]
                         ELSE snapshot
    /\ pc' = "returned"
    /\ UNCHANGED <<mainVars, strategy, exit_code, ioVars, isoVars, stepVars, seed, repair_order, descVars,
                   tabuArgs, tabuVars, saVars, gaArgs, gaVars, improvements>>

Dsatur ==
    /\ pc = "call"
    /\ strategy \in {"colour_with_dsatur", "colour_with_dsatur_snapshots"}
    /\ colours' = colour_with_dsatur(graph)
    /\ snapshot' = IF Snapshots
                   THEN LET r == colour_with_dsatur_snapshots(graph)
                        IN [snapshot EXCEPT !.out = r.out, !.result = r.colour]
                   ELSE snapshot
    /\ pc' = "returned"
    /\ UNCHANGED <<mainVars, strategy, exit_code, ioVars, isoVars, stepVars, seed, repair_order, descVars,
                   tabuArgs, tabuVars, saVars, gaArgs, gaVars, improvements>>

Exact ==
    /\ pc = "call"
    /\ strategy \in {"colour_with_exact", "colour_with_exact_snapshots"}
    /\ colours' = colour_with_exact(graph)
    /\ snapshot' = IF Snapshots
                   THEN LET r == colour_with_exact_snapshots(graph)
                        IN [snapshot EXCEPT !.out = r.out, !.result = r.colour]
                   ELSE snapshot
    /\ improvements' = IF count_colours(colour_with_dsatur(graph)) <= 1 THEN <<>>
                       ELSE exact_search(graph).improvements
    /\ pc' = "returned"
    /\ UNCHANGED <<mainVars, strategy, exit_code, ioVars, isoVars, stepVars, seed, repair_order, descVars,
                   tabuArgs, tabuVars, saVars, gaArgs, gaVars>>

\* write_coloring: one "v <vertex> <colour>" line per vertex, vertices 1-based
write_coloring(g, c_vec) ==
    [exists |-> TRUE,
     lines |-> [i \in 1..g.vertex_count |-> <<"v", i, c_vec[i - 1]>>]]

\* main after the call: the size check, write_coloring if --output was given,
\* append_result_csv if --results was given, then "return 0".  Either file
\* can fail to open (out_opens, csv_opens); the callee then throws
\* std::runtime_error before it has written anything, and the catch block
\* prints the diagnostic and returns 1
MainFinish ==
    /\ pc = "returned"
    /\ caller = "main"
    /\ \E out_opens \in (IF options.output_path # "" THEN BOOLEAN ELSE {TRUE}) :
       \E csv_opens \in (IF options.results_path # "" THEN BOOLEAN ELSE {TRUE}) :
          LET thrown ==
                  IF ReturnedVector = <<>>
                     \/ DOMAIN ReturnedVector # Vertices(graph.vertex_count)
                  THEN "Algorithm returned colour vector of incorrect size"
                  ELSE IF ~out_opens THEN "Failed to open output file"
                  ELSE IF ~csv_opens THEN "Failed to open results file"
                  ELSE ""
              written == options.output_path # ""
                         /\ thrown \in {"", "Failed to open results file"}
              appended == options.results_path # "" /\ thrown = ""
              row == ResultRow(algorithm, graph, ReturnedVector)
          IN /\ error' = thrown
             /\ exit_code' = exit_status(thrown)
             /\ output_file' = IF written THEN write_coloring(graph, ReturnedVector)
                               ELSE output_file
             /\ results_csv' = IF appended THEN append_result_csv(results_csv, row)
                               ELSE results_csv
             /\ rows_appended' = IF appended THEN Append(rows_appended, row)
                                 ELSE rows_appended
    /\ pc' = "exit"
    /\ UNCHANGED <<mainVars, strategy, colours, results_before, isoVars, runVars>>

\* append_result_csv called directly: the stream opens, or the call throws
\* std::runtime_error and leaves the file as it was
AppendResultCsv ==
    /\ pc = "csv"
    /\ Len(rows_appended) < MaxAppends
    /\ \E row \in LibraryRows :
       \E csv_opens \in BOOLEAN :
          IF csv_opens
          THEN /\ results_csv' = append_result_csv(results_csv, row)
               /\ rows_appended' = Append(rows_appended, row)
               /\ UNCHANGED <<pc, error>>
          ELSE /\ error' = "Failed to open results file"
               /\ pc' = "threw"
               /\ UNCHANGED <<results_csv, rows_appended>>
    /\ UNCHANGED <<mainVars, strategy, colours, exit_code, results_before, output_file,
                   isoVars, runVars>>

\* the isomorphism test: the same deterministic strategy on the relabelled graph
RelabelAndRerun ==
    /\ pc = "exit"
    /\ exit_code = 0
    /\ strategy \in DeterministicEntries
    /\ graph.vertex_count <= MaxPermN
    /\ \E p \in VertexPermutations(graph.vertex_count) :
         /\ pi' = p
         /\ colours_pi' \in Results(strategy, PermuteGraph(graph, p))
    /\ pc' = "relabelled"
    /\ UNCHANGED <<mainVars, strategy, colours, exit_code, ioVars, runVars>>

GreedyRepair ==
    /\ pc = "call"
    /\ strategy = "greedy_repair_fixed_k"
    /\ \E order \in DegreeOrders(graph) :
          /\ colours' = greedy_repair_fixed_k(graph, seed, palette_k, order)
          /\ repair_order' = order
    /\ pc' = "returned"
    /\ UNCHANGED <<mainVars, strategy, exit_code, ioVars, isoVars, stepVars, seed, descVars,
                   tabuArgs, tabuVars, saVars, gaArgs, gaVars, snapVars>>

\* colour_with_tabu up to the k-descent loop
TabuStart ==
    /\ pc = "call"
    /\ strategy \in {"colour_with_tabu", "colour_with_tabu_snapshots"}
    /\ palette_k' = StartPalette(graph)
    /\ best_solution' = <<>>
    /\ pc' = "tabu_stage"
    /\ UNCHANGED <<mainVars, strategy, colours, exit_code, ioVars, isoVars, stepVars, seed, repair_order,
                   work, conflicts, recorded, iter, tabuArgs, tabuVars, saVars, gaArgs, gaVars,
                   snapVars>>

\* the head of one K-stage: initialize_colouring, count_conflicts and the
\* "already conflict-free" test
TabuInitStage ==
    /\ pc = "tabu_stage"
    /\ palette_k >= 1
    /\ \E order \in DegreeOrders(graph) :
       \E c \in initialize_colouring(graph, palette_k, order) :
          /\ snapshot' = IF Snapshots
                         THEN tabu_snapshots_stage(palette_k, c, count_conflicts(graph, c), snapshot)
                         ELSE snapshot
          /\ IF count_conflicts(graph, c) = 0
             THEN /\ work' = <<>>
                  /\ conflicts' = 0
                  /\ best_solution' = c
                  /\ recorded' = recorded \cup {count_colours(c)}
                  /\ palette_k' = palette_k - 1
                  /\ pc' = "tabu_stage"
                  /\ UNCHANGED <<iter, tabuVars>>
             ELSE /\ work' = c
                  /\ conflicts' = count_conflicts(graph, c)
                  /\ tabu' = [v \in Vertices(graph.vertex_count) |-> [x \in 0..(palette_k - 1) |-> 0]]
                  /\ moves' = <<>>
                  /\ best_conflicts_this_k' = count_conflicts(graph, c)
                  /\ iter' = 1
                  /\ pc' = "tabu_iter"
                  /\ UNCHANGED <<best_solution, recorded, palette_k>>
    /\ UNCHANGED <<mainVars, strategy, colours, exit_code, ioVars, isoVars, stepVars, seed, repair_order,
                   tabuArgs, saVars, gaArgs, gaVars, improvements>>

\* the k-descent loop ran down to k = 0
TabuDescentEnd ==
    /\ pc = "tabu_stage"
    /\ palette_k < 1
    /\ pc' = "tabu_return"
    /\ UNCHANGED <<mainVars, strategy, colours, exit_code, ioVars, isoVars, runVars>>

\* one iteration of the inner loop and, when it breaks, the test
\* "if (conflicts > 0) break;" that follows the loop; the locals of the stage
\* (colours, tabu, conflicts) end with it
TabuIteration ==
    /\ pc = "tabu_iter"
    /\ iter <= max_iterations
    /\ LET before == [work |-> work, conflicts |-> conflicts, tabu |-> tabu,
                      best_conflicts_this_k |-> best_conflicts_this_k,
                      best_solution |-> best_solution, found |-> FALSE,
                      iter |-> iter, done |-> FALSE]
           s == tabu_iteration(graph, palette_k, tabu_tenure, before)
       IN /\ snapshot' = IF Snapshots
                         THEN tabu_snapshots_iteration(graph, palette_k, before, s, snapshot)
                         ELSE snapshot
          /\ best_solution' = s.best_solution
          /\ recorded' = IF s.found THEN recorded \cup {count_colours(s.best_solution)}
                         ELSE recorded
          /\ IF ~s.done
             THEN /\ work' = s.work
                  /\ conflicts' = s.conflicts
                  /\ tabu' = s.tabu
                  /\ moves' = Append(moves, AppliedMove(graph, work, palette_k, tabu, iter,
                                                        conflicts, best_conflicts_this_k))
                  /\ best_conflicts_this_k' = s.best_conflicts_this_k
                  /\ iter' = s.iter
                  /\ UNCHANGED <<pc, palette_k>>
             ELSE /\ work' = <<>>
                  /\ conflicts' = 0
                  /\ tabu' = <<>>
                  /\ moves' = <<>>
                  /\ best_conflicts_this_k' = 0
                  /\ iter' = 0
                  /\ IF s.conflicts > 0 THEN pc' = "tabu_return" /\ palette_k' = palette_k
                     ELSE pc' = "tabu_stage" /\ palette_k' = palette_k - 1
    /\ UNCHANGED <<mainVars, strategy, colours, exit_code, ioVars, isoVars, stepVars, seed, repair_order,
                   tabuArgs, saVars, gaArgs, gaVars, improvements>>

\* the inner loop ran max_iterations times without reaching zero conflicts
TabuIterationsExhausted ==
    /\ pc = "tabu_iter"
    /\ iter > max_iterations
    /\ work' = <<>>
    /\ conflicts' = 0
    /\ tabu' = <<>>
    /\ moves' = <<>>
    /\ best_conflicts_this_k' = 0
    /\ iter' = 0
    /\ IF conflicts > 0 THEN pc' = "tabu_return" /\ palette_k' = palette_k
       ELSE pc' = "tabu_stage" /\ palette_k' = palette_k - 1
    /\ UNCHANGED <<mainVars, strategy, colours, exit_code, ioVars, isoVars, stepVars, seed, repair_order,
                   best_solution, recorded, tabuArgs, saVars, gaArgs, gaVars, snapVars>>

\* the return statements of colour_with_tabu
TabuReturn ==
    /\ pc = "tabu_return"
    /\ colours' = IF best_solution # <<>> THEN best_solution ELSE tabu_fallback(graph)
    /\ snapshot' = IF Snapshots THEN tabu_snapshots_return(graph, snapshot) ELSE snapshot
    /\ pc' = "returned"
    /\ UNCHANGED <<mainVars, strategy, exit_code, ioVars, isoVars, stepVars, seed, repair_order, descVars,
                   tabuArgs, tabuVars, saVars, gaArgs, gaVars, improvements>>

\* colour_with_simulated_annealing up to the palette loop
SAStart ==
    /\ pc = "call"
    /\ strategy \in {"colour_with_simulated_annealing",
                    "colour_with_simulated_annealing_snapshots"}
    /\ snapshot' = IF Snapshots
                   THEN [snapshot EXCEPT !.frame = [v \in Vertices(graph.vertex_count) |-> -1]]
                   ELSE snapshot
    /\ palette_k' = StartPalette(graph)
    /\ best_solution' = <<>>
    /\ best_valid_k' = IntMax
    /\ best_overall' = [colours |-> <<>>, conflicts |-> IntMax, k |-> IntMax]
    /\ pc' = "sa_stage"
    /\ UNCHANGED <<mainVars, strategy, colours, exit_code, ioVars, isoVars, stepVars, seed, repair_order,
                   work, conflicts, recorded, iter, tabuArgs, tabuVars, gaArgs, gaVars,
                   improvements>>

\* the head of one palette stage: random seed, greedy_repair_fixed_k,
\* count_conflicts and the "conflicts == 0" test
SAInitStage ==
    /\ pc = "sa_stage"
    /\ palette_k >= 1
    /\ \E sd \in RandomSeeds(graph, palette_k) :
       \E order \in DegreeOrders(graph) :
          LET c == greedy_repair_fixed_k(graph, sd, palette_k, order)
          IN /\ snapshot' = IF Snapshots THEN sa_snapshots_stage(graph, snapshot, c, 0)
                            ELSE snapshot
             /\ IF count_conflicts(graph, c) = 0
                THEN /\ best_solution' = c
                     /\ best_valid_k' = Min(best_valid_k, count_colour_usage(c))
                     /\ recorded' = recorded \cup {count_colour_usage(c)}
                     /\ palette_k' = palette_k - 1
                     /\ UNCHANGED <<pc, work, conflicts, iter>>
                ELSE /\ work' = c
                     /\ conflicts' = count_conflicts(graph, c)
                     /\ iter' = 0
                     /\ pc' = "sa_iter"
                     /\ UNCHANGED <<best_solution, best_valid_k, recorded, palette_k>>
    /\ UNCHANGED <<mainVars, strategy, colours, exit_code, ioVars, isoVars, stepVars, seed, repair_order,
                   tabuArgs, tabuVars, best_overall, gaArgs, gaVars, improvements>>

\* one iteration of the annealing loop.  The temperature only decides whether
\* an uphill move is accepted: real01(rng) < exp(-delta / T) can come out
\* either way, so the acceptance of an uphill move is a free choice.  An
\* accepted move that reaches zero conflicts leaves the loop and is recorded.
SAIteration ==
    /\ pc = "sa_iter"
    /\ iter < sa_iters(graph)
    /\ \E v \in Vertices(graph.vertex_count) :
       \E newc \in ProposedColours(palette_k, work[v]) :
       \E uphill \in BOOLEAN :
          LET moved == [work EXCEPT ![v] = newc]
              delta == count_conflicts_local(graph, moved, v)
                         - count_conflicts_local(graph, work, v)
              accept == delta <= 0 \/ uphill
              total == conflicts + delta
          IN IF ~accept
             THEN /\ iter' = iter + 1
                  /\ UNCHANGED <<pc, work, conflicts, best_overall, best_solution,
                                 best_valid_k, recorded, palette_k, snapshot>>
             ELSE /\ best_overall' = sa_best_overall(best_overall, moved, total)
                  /\ snapshot' = IF Snapshots
                                 THEN sa_snapshots_step(graph, snapshot, SAStep(v, newc))
                                 ELSE snapshot
                  /\ IF total = 0
                     THEN /\ best_solution' = moved
                          /\ best_valid_k' = Min(best_valid_k, count_colour_usage(moved))
                          /\ recorded' = recorded \cup {count_colour_usage(moved)}
                          /\ palette_k' = palette_k - 1
                          /\ work' = <<>>
                          /\ conflicts' = 0
                          /\ iter' = 0
                          /\ pc' = "sa_stage"
                     ELSE /\ work' = moved
                          /\ conflicts' = total
                          /\ iter' = iter + 1
                          /\ UNCHANGED <<pc, best_solution, best_valid_k, recorded, palette_k>>
    /\ UNCHANGED <<mainVars, strategy, colours, exit_code, ioVars, isoVars, stepVars, seed, repair_order,
                   tabuArgs, tabuVars, gaArgs, gaVars, improvements>>

\* the loop ran all its iterations: the stage failed (or, were conflicts zero,
\* is recorded) and the function returns
SAIterationsExhausted ==
    /\ pc = "sa_iter"
    /\ iter >= sa_iters(graph)
    /\ IF conflicts = 0
       THEN /\ best_solution' = work
            /\ best_valid_k' = Min(best_valid_k, count_colour_usage(work))
            /\ recorded' = recorded \cup {count_colour_usage(work)}
            /\ palette_k' = palette_k - 1
            /\ pc' = "sa_stage"
            /\ UNCHANGED <<colours, snapshot>>
       ELSE /\ colours' = sa_result(best_solution, best_overall, work)
            /\ snapshot' = IF Snapshots THEN sa_snapshots_return(snapshot, colours')
                           ELSE snapshot
            /\ pc' = "returned"
            /\ UNCHANGED <<best_solution, best_valid_k, recorded, palette_k>>
    /\ work' = <<>>
    /\ conflicts' = 0
    /\ iter' = 0
    /\ UNCHANGED <<mainVars, strategy, exit_code, ioVars, isoVars, stepVars, seed, repair_order,
                   tabuArgs, tabuVars, best_overall, gaArgs, gaVars, improvements>>

\* the palette loop ran down to palette_k = 0
SADescentEnd ==
    /\ pc = "sa_stage"
    /\ palette_k < 1
    /\ colours' = sa_result(best_solution, best_overall,
                            [v \in Vertices(graph.vertex_count) |-> 0])
    /\ snapshot' = IF Snapshots THEN sa_snapshots_return(snapshot, colours') ELSE snapshot
    /\ pc' = "returned"
    /\ UNCHANGED <<mainVars, strategy, exit_code, ioVars, isoVars, stepVars, seed, repair_order, descVars,
                   tabuArgs, tabuVars, saVars, gaArgs, gaVars, improvements>>

\* colour_with_genetic up to the palette loop
GAStart ==
    /\ pc = "call"
    /\ strategy \in {"colour_with_genetic", "colour_with_genetic_snapshots"}
    /\ population_size' = ga_population_size(IF caller = "main" THEN options.population_size
                                             ELSE population_size)
    /\ max_generations' = IF caller = "main" THEN options.max_generations ELSE max_generations
    /\ mutation_rate' = IF caller = "main" THEN options.mutation_rate ELSE mutation_rate
    /\ palette_k' = ga_start_palette(graph)
    /\ best_solution' = <<>>
    /\ best_valid_k' = IntMax
    /\ pc' = "ga_stage"
    /\ UNCHANGED <<mainVars, strategy, colours, exit_code, ioVars, isoVars, stepVars, seed, repair_order,
                   work, conflicts, recorded, iter, tabuArgs, tabuVars, best_overall,
                   gaVars, snapVars>>

\* the head of one palette stage: the initial population and its best
GAInitStage ==
    /\ pc = "ga_stage"
    /\ palette_k >= 1
    /\ \E pop \in BagsOfSize(InitialIndividuals(graph, palette_k), population_size) :
          /\ population' = pop
          /\ evaluated' = evaluated \cup BagToSet(pop)
          /\ best' \in MinFitness(pop)
          /\ snapshot' = IF Snapshots THEN ga_snapshots_update(snapshot, best') ELSE snapshot
    /\ iter' = 0
    /\ pc' = "ga_gen"
    /\ UNCHANGED <<mainVars, strategy, colours, exit_code, ioVars, isoVars, stepVars, seed, repair_order,
                   palette_k, work, conflicts, best_solution, recorded, tabuArgs, tabuVars,
                   saVars, gaArgs, next_pop, improvements>>

\* one pass of the generational loop: sort, update of best and, unless best
\* is conflict-free (found_valid, break), elitism and the refill
GAGeneration ==
    /\ pc = "ga_gen"
    /\ iter < max_generations
    /\ best.conflicts # 0
    /\ \E sorted \in SortedPrefixes(population, Min(2, population_size)) :
          LET front == sorted[1]
              b == IF front.fitness < best.fitness THEN front ELSE best
          IN /\ best' = b
             /\ snapshot' = IF Snapshots THEN ga_snapshots_update(snapshot, b) ELSE snapshot
             /\ IF b.conflicts = 0
                THEN UNCHANGED <<population, iter, evaluated>>
                ELSE /\ \E rest \in BagsOfSize(Children(graph, population, palette_k,
                                                         mutation_rate),
                                                population_size - Len(sorted)) :
                          /\ population' = SeqToBag(sorted) (+) rest
                          /\ evaluated' = evaluated \cup BagToSet(rest)
                     /\ iter' = iter + 1
    /\ UNCHANGED <<mainVars, pc, strategy, colours, exit_code, ioVars, isoVars, stepVars, seed,
                   repair_order, palette_k, work, conflicts, best_solution, recorded, tabuArgs,
                   tabuVars, saVars, gaArgs, next_pop, improvements>>

\* after the generations of one stage: the last scan for best, then either
\* the record of a valid colouring and the next stage, or the return
GAStageEnd ==
    /\ pc = "ga_gen"
    /\ iter >= max_generations \/ best.conflicts = 0
    /\ \E b \in scan_best(population, best) :
       \E min_ind \in MinFitness(population) :
          LET sn == IF Snapshots THEN ga_snapshots_update(snapshot, b) ELSE snapshot
          IN IF b.conflicts = 0
             THEN /\ best_solution' = b.colours
                  /\ best_valid_k' = Min(best_valid_k, b.colour_usage)
                  /\ recorded' = recorded \cup {count_colour_usage(b.colours)}
                  /\ palette_k' = palette_k - 1
                  /\ pc' = "ga_stage"
                  /\ colours' = colours
                  /\ snapshot' = sn
             ELSE /\ colours' = IF best_solution # <<>> THEN best_solution
                                ELSE min_ind.colours
                  /\ snapshot' = IF Snapshots THEN ga_snapshots_failed(sn, min_ind) ELSE sn
                  /\ pc' = "returned"
                  /\ UNCHANGED <<best_solution, best_valid_k, recorded, palette_k>>
    /\ population' = <<>>
    /\ best' = <<>>
    /\ next_pop' = <<>>
    /\ iter' = 0
    /\ UNCHANGED <<mainVars, strategy, exit_code, ioVars, isoVars, stepVars, seed, repair_order, work,
                   conflicts, tabuArgs, tabuVars, best_overall, gaArgs, evaluated, improvements>>

\* the palette loop ran down to palette_k = 0
GADescentEnd ==
    /\ pc = "ga_stage"
    /\ palette_k < 1
    /\ colours' = IF best_solution # <<>> THEN best_solution
                  ELSE [v \in Vertices(graph.vertex_count) |-> 0]
    /\ snapshot' = IF Snapshots THEN ga_snapshots_return(graph, snapshot) ELSE snapshot
    /\ pc' = "returned"
    /\ UNCHANGED <<mainVars, strategy, exit_code, ioVars, isoVars, stepVars, seed, repair_order, descVars,
                   tabuArgs, tabuVars, saVars, gaArgs, gaVars, improvements>>

\* colour_with_exact taken one activation of backtrack_exact at a time.  An
\* activation is [coloured_count, current_max_colour, u, banned, c, at]; at
\* is "entry" before its first statement, "loop" at the head of the
\* for (c ...) loop, "existing" inside the recursive call of that loop, "new"
\* after the loop and "new_colour" inside the last recursive call

\* the activation that is running, and the ones waiting for it
Innermost == stack[Len(stack)]
Callers == SubSeq(stack, 1, Len(stack) - 1)

\* colour_with_exact up to the first call of backtrack_exact
ExactBegin ==
    /\ pc = "call"
    /\ strategy = "colour_with_exact"
    /\ LET ub_solution == colour_with_dsatur(graph)
       IN IF count_colours(ub_solution) <= 1
          THEN /\ colours' = [v \in Vertices(graph.vertex_count) |-> 0]
               /\ pc' = "returned"
               /\ UNCHANGED <<work, best_solution, best_valid_k, stack>>
          ELSE /\ work' = [v \in Vertices(graph.vertex_count) |-> -1]
               /\ best_solution' = ub_solution
               /\ best_valid_k' = count_colours(ub_solution)
               /\ stack' = <<Activation(0, -1)>>
               /\ pc' = "exact_search"
               /\ UNCHANGED colours
    /\ UNCHANGED <<mainVars, strategy, exit_code, ioVars, isoVars, seed, repair_order,
                   palette_k, conflicts, recorded, iter, tabuArgs, tabuVars, best_overall,
                   gaArgs, gaVars, snapVars, dsatur, popped>>

\* backtrack_exact from its first statement to the head of the colour loop
BacktrackEnter ==
    /\ pc = "exact_search"
    /\ stack # <<>>
    /\ Innermost.at = "entry"
    /\ LET f == Innermost
           u == select_vertex(graph, work, f.current_max_colour)
       IN IF f.coloured_count = graph.vertex_count
          THEN /\ stack' = Callers
               /\ IF f.current_max_colour + 1 < best_valid_k
                  THEN /\ best_valid_k' = f.current_max_colour + 1
                       /\ best_solution' = work
                       /\ improvements' = Append(improvements, Line(work))
                  ELSE UNCHANGED <<best_valid_k, best_solution, improvements>>
          ELSE /\ UNCHANGED <<best_valid_k, best_solution, improvements>>
               /\ IF Pruned(f.current_max_colour, best_valid_k)
                  THEN stack' = Callers
                  ELSE IF u = -1
                  THEN stack' = Callers
                  ELSE stack' = Append(Callers,
                                       At(f, u, banned_colours(graph, work, u,
                                                               f.current_max_colour),
                                          0, "loop"))
    /\ UNCHANGED <<mainVars, pc, strategy, colours, exit_code, ioVars, isoVars, seed,
                   repair_order, palette_k, work, conflicts, recorded, iter, tabuArgs, tabuVars,
                   best_overall, gaArgs, gaVars, snapshot, dsatur, popped>>

\* the for (c ...) loop up to its next recursive call, or to its end
BacktrackExisting ==
    /\ pc = "exact_search"
    /\ stack # <<>>
    /\ Innermost.at = "loop"
    /\ LET f == Innermost
           free == {c \in f.c..f.current_max_colour : c \notin f.banned}
       IN IF free = {}
          THEN /\ stack' = Append(Callers, At(f, f.u, f.banned, f.current_max_colour + 1, "new"))
               /\ UNCHANGED work
          ELSE /\ work' = Coloured(work, f.u, SetMin(free))
               /\ stack' = Append(Append(Callers, At(f, f.u, f.banned, SetMin(free), "existing")),
                                  Activation(f.coloured_count + 1, f.current_max_colour))
    /\ UNCHANGED <<mainVars, pc, strategy, colours, exit_code, ioVars, isoVars, seed,
                   repair_order, palette_k, conflicts, best_solution, recorded, iter, tabuArgs,
                   tabuVars, saVars, gaArgs, gaVars, snapVars, dsatur, popped>>

\* the recursive call of the loop has returned: colours[u] = -1; ++c
BacktrackExistingReturned ==
    /\ pc = "exact_search"
    /\ stack # <<>>
    /\ Innermost.at = "existing"
    /\ work' = Uncoloured(work, Innermost.u)
    /\ stack' = Append(Callers, At(Innermost, Innermost.u, Innermost.banned,
                                   Innermost.c + 1, "loop"))
    /\ UNCHANGED <<mainVars, pc, strategy, colours, exit_code, ioVars, isoVars, seed,
                   repair_order, palette_k, conflicts, best_solution, recorded, iter, tabuArgs,
                   tabuVars, saVars, gaArgs, gaVars, snapVars, dsatur, popped>>

\* after the loop: the new colour, if it can still beat the incumbent
BacktrackNewColour ==
    /\ pc = "exact_search"
    /\ stack # <<>>
    /\ Innermost.at = "new"
    /\ LET f == Innermost
       IN IF NewColourAllowed(f.current_max_colour, best_valid_k)
          THEN /\ work' = Coloured(work, f.u, f.current_max_colour + 1)
               /\ stack' = Append(Append(Callers, At(f, f.u, f.banned, f.c, "new_colour")),
                                  Activation(f.coloured_count + 1, f.current_max_colour + 1))
          ELSE /\ stack' = Callers
               /\ UNCHANGED work
    /\ UNCHANGED <<mainVars, pc, strategy, colours, exit_code, ioVars, isoVars, seed,
                   repair_order, palette_k, conflicts, best_solution, recorded, iter, tabuArgs,
                   tabuVars, saVars, gaArgs, gaVars, snapVars, dsatur, popped>>

\* the last recursive call has returned: colours[u] = -1 and the return
BacktrackNewColourReturned ==
    /\ pc = "exact_search"
    /\ stack # <<>>
    /\ Innermost.at = "new_colour"
    /\ work' = Uncoloured(work, Innermost.u)
    /\ stack' = Callers
    /\ UNCHANGED <<mainVars, pc, strategy, colours, exit_code, ioVars, isoVars, seed,
                   repair_order, palette_k, conflicts, best_solution, recorded, iter, tabuArgs,
                   tabuVars, saVars, gaArgs, gaVars, snapVars, dsatur, popped>>

\* the outermost backtrack_exact has returned: return best_solution
ExactReturn ==
    /\ pc = "exact_search"
    /\ stack = <<>>
    /\ colours' = best_solution
    /\ pc' = "returned"
    /\ UNCHANGED <<mainVars, strategy, exit_code, ioVars, isoVars, seed, repair_order, descVars,
                   tabuArgs, tabuVars, saVars, gaArgs, gaVars, snapVars, stepVars>>

\* colour_with_dsatur taken one pass of its while loop at a time
DsaturBegin ==
    /\ pc = "call"
    /\ strategy = "colour_with_dsatur"
    /\ dsatur' = dsatur_init(graph)
    /\ popped' = <<>>
    /\ pc' = "dsatur_loop"
    /\ UNCHANGED <<mainVars, strategy, colours, exit_code, ioVars, isoVars, seed, repair_order,
                   descVars, tabuArgs, tabuVars, saVars, gaArgs, gaVars, snapVars, stack>>

DsaturPass ==
    /\ pc = "dsatur_loop"
    /\ dsatur.Q # {}
    /\ dsatur' = dsatur_locals(dsatur_step(graph, dsatur))
    /\ popped' = Append(popped, QBegin(dsatur.Q).v)
    /\ UNCHANGED <<mainVars, pc, strategy, colours, exit_code, ioVars, isoVars, seed,
                   repair_order, descVars, tabuArgs, tabuVars, saVars, gaArgs, gaVars, snapVars,
                   stack>>

DsaturReturn ==
    /\ pc = "dsatur_loop"
    /\ dsatur.Q = {}
    /\ colours' = dsatur.colour
    /\ pc' = "returned"
    /\ UNCHANGED <<mainVars, strategy, exit_code, ioVars, isoVars, seed, repair_order, descVars,
                   tabuArgs, tabuVars, saVars, gaArgs, gaVars, snapVars, stepVars>>

\* the generational loop of colour_with_genetic taken step by step:
\* std::sort, the update of best and, unless best is conflict-free
\* (found_valid, break), next_pop.clear() and the two elites
GASortElite ==
    /\ pc = "ga_gen"
    /\ iter < max_generations
    /\ best.conflicts # 0
    /\ \E sorted \in SortedPrefixes(population, Min(2, population_size)) :
          LET front == sorted[1]
              b == IF front.fitness < best.fitness THEN front ELSE best
          IN /\ best' = b
             /\ IF b.conflicts = 0
                THEN UNCHANGED <<next_pop, pc>>
                ELSE /\ next_pop' = SeqToBag(sorted)
                     /\ pc' = "ga_fill"
    /\ UNCHANGED <<mainVars, strategy, colours, exit_code, ioVars, isoVars, stepVars, seed, repair_order,
                   descVars, tabuArgs, tabuVars, saVars, gaArgs, population, evaluated,
                   snapVars>>

\* "fill rest": two tournaments and the crossover of their winners
GACrossover ==
    /\ pc = "ga_fill"
    /\ BagCardinality(next_pop) < population_size
    /\ \E pa \in tournament_select(population), pb \in tournament_select(population),
          cut \in 1..Max(1, graph.vertex_count - 1) :
          work' = crossover(pa, pb, cut, palette_k)
    /\ pc' = "ga_mutate"
    /\ UNCHANGED <<mainVars, strategy, colours, exit_code, ioVars, isoVars, stepVars, seed, repair_order,
                   palette_k, conflicts, best_solution, recorded, iter, tabuArgs, tabuVars,
                   saVars, gaArgs, gaVars, snapVars>>

\* mutate(child, rng, palette_k, mutation_rate); the child then is the seed
\* handed to greedy_repair_fixed_k
GAMutate ==
    /\ pc = "ga_mutate"
    /\ seed' \in mutate(work, palette_k, mutation_rate)
    /\ pc' = "ga_repair"
    /\ UNCHANGED <<mainVars, strategy, colours, exit_code, ioVars, isoVars, stepVars, repair_order,
                   descVars, tabuArgs, tabuVars, saVars, gaArgs, gaVars, snapVars>>

\* the repair of the child, evaluate and next_pop.push_back
GARepairEvaluate ==
    /\ pc = "ga_repair"
    /\ \E ord \in DegreeOrders(graph) :
          LET child == evaluate(greedy_repair_fixed_k(graph, seed, palette_k, ord), graph)
          IN /\ next_pop' = next_pop (+) SetToBag({child})
             /\ evaluated' = evaluated \cup {child}
    /\ work' = <<>>
    /\ seed' = <<>>
    /\ pc' = "ga_fill"
    /\ UNCHANGED <<mainVars, strategy, colours, exit_code, ioVars, isoVars, stepVars, repair_order,
                   palette_k, conflicts, best_solution, recorded, iter, tabuArgs, tabuVars,
                   saVars, gaArgs, population, best, snapVars>>

\* population.swap(next_pop) and ++gen
GASwap ==
    /\ pc = "ga_fill"
    /\ BagCardinality(next_pop) >= population_size
    /\ population' = next_pop
    /\ next_pop' = population
    /\ iter' = iter + 1
    /\ pc' = "ga_gen"
    /\ UNCHANGED <<mainVars, strategy, colours, exit_code, ioVars, isoVars, stepVars, seed, repair_order,
                   palette_k, work, conflicts, best_solution, recorded, tabuArgs, tabuVars,
                   saVars, gaArgs, best, evaluated, snapVars>>

Next ==
    \/ MainLookup
    \/ WelshPowell
    \/ Dsatur
    \/ Exact
    \/ MainFinish
    \/ RelabelAndRerun
    \/ GreedyRepair
    \/ TabuStart
    \/ TabuInitStage
    \/ TabuDescentEnd
    \/ TabuIteration
    \/ TabuIterationsExhausted
    \/ TabuReturn
    \/ SAStart
    \/ SAInitStage
    \/ SAIteration
    \/ SAIterationsExhausted
    \/ SADescentEnd
    \/ GAStart
    \/ GAInitStage
    \/ GAGeneration
    \/ GAStageEnd
    \/ GADescentEnd

Spec == Init /\ [][Next]_vars

\* the six *_snapshots entry points, each side by side with its counterpart.
\* With max_iterations = 10000 the Tabu loop never runs out of iterations on
\* these graphs, so its exhaustion is not a step of this specification
NextSnapshots ==
    \/ SnapshotOpenFails
    \/ WelshPowell
    \/ Dsatur
    \/ Exact
    \/ TabuStart
    \/ TabuInitStage
    \/ TabuDescentEnd
    \/ TabuIteration
    \/ TabuReturn
    \/ SAStart
    \/ SAInitStage
    \/ SAIteration
    \/ SAIterationsExhausted
    \/ SADescentEnd
    \/ GAStart
    \/ GAInitStage
    \/ GAGeneration
    \/ GAStageEnd
    \/ GADescentEnd

SpecSnapshots == InitSnapshots /\ [][NextSnapshots]_vars

\* benchmark_runner from the command line to its exit code
NextCommand ==
    \/ ParseArguments
    \/ LoadGraph
    \/ MainLookup
    \/ SnapshotOpenFails
    \/ WelshPowell
    \/ Dsatur
    \/ Exact
    \/ SAStart
    \/ SAInitStage
    \/ SAIteration
    \/ SAIterationsExhausted
    \/ SADescentEnd
    \/ GAStart
    \/ GAInitStage
    \/ GAGeneration
    \/ GAStageEnd
    \/ GADescentEnd
    \/ MainFinish

SpecCommand == InitCommand /\ [][NextCommand]_vars

\* the file functions of utils.h called directly
NextIo == LoadGraph \/ AppendResultCsv

SpecIo == (InitLoad \/ InitCsv) /\ [][NextIo]_vars

\* the inner loops of Tabu and SA on graphs whose stages need several moves
NextLocalSearch ==
    \/ TabuInitStage
    \/ TabuIteration
    \/ TabuIterationsExhausted
    \/ TabuReturn
    \/ SAInitStage
    \/ SAIteration
    \/ SAIterationsExhausted

SpecLocalSearch == (InitTabuStage \/ InitSAStage) /\ [][NextLocalSearch]_vars

\* colour_with_genetic from the second palette stage on, its generational
\* loop taken one statement at a time
NextGenetic ==
    \/ GAInitStage
    \/ GASortElite
    \/ GACrossover
    \/ GAMutate
    \/ GARepairEvaluate
    \/ GASwap
    \/ GAStageEnd

SpecGenetic == (InitGAStage \/ InitGAGeneration) /\ [][NextGenetic]_vars

\* colour_with_exact(g) called directly on every graph of ExactGraphs
InitExact ==
    /\ LibraryCall
    /\ NoFiles
    /\ graph \in ExactGraphs
    /\ pc = "call"
    /\ strategy = "colour_with_exact"
    /\ IdleLocals
    /\ IdleArguments

NextExact ==
    \/ ExactBegin
    \/ BacktrackEnter
    \/ BacktrackExisting
    \/ BacktrackExistingReturned
    \/ BacktrackNewColour
    \/ BacktrackNewColourReturned
    \/ ExactReturn

SpecExact == InitExact /\ [][NextExact]_vars

\* colour_with_dsatur(g) called directly on every graph of ExactGraphs
InitDsatur ==
    /\ LibraryCall
    /\ NoFiles
    /\ graph \in ExactGraphs
    /\ pc = "call"
    /\ strategy = "colour_with_dsatur"
    /\ IdleLocals
    /\ IdleArguments

NextDsatur == DsaturBegin \/ DsaturPass \/ DsaturReturn

SpecDsatur == InitDsatur /\ [][NextDsatur]_vars

-----------------------------------------------------------------------------
(* Properties *)

IsProper(g, c) ==
    /\ DOMAIN c = Vertices(g.vertex_count)
    /\ \A v \in Vertices(g.vertex_count) : c[v] >= 0
    /\ \A u \in Vertices(g.vertex_count) : \A v \in Adj(g, u) : c[u] # c[v]

\* chromatic number by brute force over all colourings with k colours
HasProperColouring(g, k) ==
    \E c \in [Vertices(g.vertex_count) -> 0..(k - 1)] : IsProper(g, c)

ChromaticNumber(g) ==
    CHOOSE k \in 1..g.vertex_count :
        /\ HasProperColouring(g, k)
        /\ \A j \in 1..(k - 1) : ~HasProperColouring(g, j)

IsBipartiteWithEdge(g) == g.edge_count >= 1 /\ HasProperColouring(g, 2)

Returned(entry) == pc \in {"returned", "exit", "relabelled"} /\ strategy = entry /\ colours # <<>>

\* C1: Welsh-Powell, DSATUR and Exact return a length-n colouring with
\* every entry >= 0 and no monochromatic edge.
C1_GreedyAndExactProper ==
    \A entry \in DeterministicEntries : Returned(entry) => IsProper(graph, colours)

C1_Witness ==
    /\ Returned("colour_with_exact")
    /\ graph.edge_count >= 3
    /\ count_colours(colours) >= 3

\* C2: the Exact solver returns a colouring with exactly chi(G) colours.
C2_ExactOptimal ==
    Returned("colour_with_exact") => count_colours(colours) = ChromaticNumber(graph)

\* the search (not only the DSATUR seed) produced the answer
C2_Witness ==
    /\ Returned("colour_with_exact")
    /\ count_colours(colours) = 3
    /\ count_colours(colour_with_dsatur(graph)) = 4

MetaheuristicEntries ==
    {"colour_with_tabu", "colour_with_simulated_annealing", "colour_with_genetic"}

\* C3: when a zero-conflict colouring was recorded at some K-stage of the
\* k-descent of Tabu, SA or GA, the colouring returned has zero conflicts.
C3_RecordedImpliesValidResult ==
    \A entry \in MetaheuristicEntries :
        (Returned(entry) /\ recorded # {}) => count_conflicts(graph, colours) = 0

\* a descent that recorded a colouring and then stopped on a failed stage
C3_Witness ==
    /\ Returned("colour_with_simulated_annealing")
    /\ recorded # {}
    /\ palette_k >= 1
    /\ graph.edge_count >= 1

AllEntries == DeterministicEntries \cup MetaheuristicEntries

\* C4: every strategy returns a colouring whose number of colours
\* (max colour + 1) is at most Delta + 1.
C4_PaletteBound ==
    \A entry \in AllEntries :
        Returned(entry) => count_colours(colours) <= max_degree(graph) + 1

\* a metaheuristic that needed all Delta + 1 colours
C4_Witness ==
    /\ Returned("colour_with_tabu")
    /\ max_degree(graph) >= 2
    /\ count_colours(colours) = max_degree(graph) + 1

\* C5: the colouring a k-descent returns uses no more colours than any
\* zero-conflict colouring recorded during that descent.
C5_ReturnsBestRecorded ==
    \A entry \in MetaheuristicEntries :
        Returned(entry) => \A used \in recorded : count_colours(colours) <= used

\* the descent returned three colours after it had recorded a colouring
\* with two
C5_WorseThanRecorded ==
    /\ Returned("colour_with_tabu")
    /\ 2 \in recorded
    /\ count_colours(colours) = 3
    /\ count_conflicts(graph, colours) = 0

SpecifiedNames ==
    {"welsh_powell", "dsatur", "simulated_annealing", "genetic", "tabu_search", "exact_solver"}

\* C6: the dispatcher invokes a strategy for exactly the six specified
\* names and rejects every other name with exit code 1.
C6_DispatcherAcceptsSixNames ==
    (caller = "main" /\ pc # "main") =>
        IF algorithm \in SpecifiedNames
        THEN strategy # "none" /\ exit_code # 1
        ELSE strategy = "none" /\ exit_code = 1

\* the run-tabu target's name is rejected
C6_TabuSearchRejected ==
    /\ caller = "main"
    /\ algorithm = "tabu_search"
    /\ pc = "exit"
    /\ exit_code = 1

\* c and c2 split the vertices into the same colour classes once the
\* vertices of c2 are read through the relabelling p
SamePartition(c, c2, p) ==
    \A u, v \in DOMAIN c : (c[u] = c[v]) <=> (c2[p[u]] = c2[p[v]])

Identity(n) == [v \in Vertices(n) |-> v]

\* C7 as stated: the colouring of the relabelled graph equals the colouring
\* of the original graph up to a bijection on colours.
C7_EquivariantUpToColourBijection ==
    pc = "relabelled" => SamePartition(colours, colours_pi, pi)

\* C7 amended: the colouring of the relabelled graph, read back through the
\* relabelling, is a proper colouring of the original graph within the
\* palette bound, and for the Exact solver it uses as many colours as the
\* colouring of the original graph.
C7_RelabelledResultIsProper ==
    pc = "relabelled" =>
        /\ IsProper(graph, [v \in Vertices(graph.vertex_count) |-> colours_pi[pi[v]]])
        /\ count_colours(colours_pi) <= max_degree(graph) + 1
        /\ strategy = "colour_with_exact" => count_colours(colours_pi) = count_colours(colours)

\* a relabelling under which the two colourings split the vertices differently
C7_Witness ==
    /\ pc = "relabelled"
    /\ graph.edge_count >= 1
    /\ pi # Identity(graph.vertex_count)
    /\ ~SamePartition(colours, colours_pi, pi)

ValidSeed(g, sd, k) ==
    /\ \A v \in Vertices(g.vertex_count) : sd[v] >= 0 /\ sd[v] < k
    /\ count_conflicts(g, sd) = 0

\* C8: greedy_repair_fixed_k on a zero-conflict seed with entries in [0, K)
\* returns a colouring with the same colour classes as the seed.
C8_RepairIdempotent ==
    (Returned("greedy_repair_fixed_k") /\ ValidSeed(graph, seed, palette_k)) =>
        SamePartition(seed, colours, Identity(graph.vertex_count))

C8_Witness ==
    /\ Returned("greedy_repair_fixed_k")
    /\ ValidSeed(graph, seed, palette_k)
    /\ graph.edge_count >= 2
    /\ count_colours(seed) = 2

\* C9 as stated: Welsh-Powell uses exactly 2 colours on a bipartite graph
\* with at least one edge.
C9_WelshPowellBipartiteTwoColours ==
    (Returned("colour_with_welsh_powell") /\ IsBipartiteWithEdge(graph)) =>
        count_colours(colours) = 2

\* C9 amended: on a bipartite graph with at least one edge Welsh-Powell
\* returns a proper colouring that uses at least 2 and at most Delta + 1
\* colours.
C9_WelshPowellBipartiteBounds ==
    (Returned("colour_with_welsh_powell") /\ IsBipartiteWithEdge(graph)) =>
        /\ IsProper(graph, colours)
        /\ count_colours(colours) >= 2
        /\ count_colours(colours) <= max_degree(graph) + 1

\* a bipartite graph on which Welsh-Powell spends a third colour
C9_Witness ==
    /\ Returned("colour_with_welsh_powell")
    /\ IsBipartiteWithEdge(graph)
    /\ count_colours(colours) = 3

\* C10: DSATUR uses exactly 2 colours on every bipartite graph with at
\* least one edge, connected or not.
C10_DsaturBipartiteTwoColours ==
    (Returned("colour_with_dsatur") /\ IsBipartiteWithEdge(graph)) =>
        count_colours(colours) = 2

\* DSATUR stays at 2 colours on the path that costs Welsh-Powell a third
C10_Witness ==
    /\ Returned("colour_with_dsatur")
    /\ graph = RelabelledPath6
    /\ count_colours(colours) = 2

\* a *_snapshots entry point has returned to its caller
SnapshotRunReturned == Snapshots /\ pc = "returned"

\* C11: when a snapshot variant (Welsh-Powell, DSATUR, Tabu, SA, GA, Exact)
\* returns, the snapshots file is not empty and its last line is the line of
\* exactly the vector the call returns.
C11_LastLineIsReturned ==
    SnapshotRunReturned =>
        /\ Len(snapshot.out) >= 1
        /\ snapshot.out[Len(snapshot.out)] = Line(snapshot.result)

\* a snapshot run that wrote earlier lines different from its last one
C11_Witness ==
    /\ SnapshotRunReturned
    /\ Len(snapshot.out) >= 2
    /\ snapshot.out[1] # Line(snapshot.result)
    /\ snapshot.out[Len(snapshot.out)] = Line(snapshot.result)


\* C12: each *_snapshots entry point (genetic, tabu, exact, dsatur,
\* welsh_powell) returns the same vector as its plain counterpart run on the
\* same graph with the same random draws.
C12_SnapshotsReturnSame ==
    (SnapshotRunReturned /\ strategy # "colour_with_simulated_annealing_snapshots") =>
        snapshot.result = colours

\* the genetic pair on the path 0-1-2: both vectors are proper 2-colourings,
\* but the variant returns the one of an earlier palette
C12_GeneticPairDiffers ==
    /\ SnapshotRunReturned
    /\ strategy = "colour_with_genetic_snapshots"
    /\ graph = PathGraph(3)
    /\ IsProper(graph, colours)
    /\ IsProper(graph, snapshot.result)
    /\ snapshot.result # colours

\* the lines of the Exact variant's file between the line of the DSATUR
\* bound and the final line
ImprovementSnapshots ==
    IF Len(snapshot.out) >= 2 THEN SubSeq(snapshot.out, 2, Len(snapshot.out) - 1) ELSE <<>>

ExactSnapshotRunReturned ==
    SnapshotRunReturned /\ strategy = "colour_with_exact_snapshots"

\* C13: the Exact snapshot variant writes one line each time best_k strictly
\* decreases (plus the final line): a search that lowers best_k d times leaves
\* d improvement lines, each the best_solution assigned at that decrease.
C13_LinePerImprovement ==
    ExactSnapshotRunReturned => ImprovementSnapshots = improvements

\* a search that lowered best_k twice and left one improvement line, the
\* line of the second best_solution
C13_TwoImprovementsOneLine ==
    /\ ExactSnapshotRunReturned
    /\ graph = ExactTwoStep11
    /\ Len(improvements) = 2
    /\ ImprovementSnapshots = <<improvements[2]>>

\* benchmark_runner has ended
Exited == caller = "main" /\ pc = "exit"

\* C14: a run in which an error was raised (malformed graph, unknown
\* algorithm, unreadable flag, size mismatch, a file that does not open) ends
\* with exit code 1 and leaves the results CSV as it was, without a complete
\* or partial row; a run that ends with exit code 0 raised no error.
C14_ErrorsExitOneWithoutRow ==
    Exited =>
        /\ exit_code \in {0, 1}
        /\ error # "" => /\ exit_code = 1
                         /\ results_csv = results_before
                         /\ rows_appended = <<>>
        /\ exit_code = 0 => error = ""

\* --results names a file that already holds rows, the colouring was written
\* to --output, and the results file then fails to open
C14_Witness ==
    /\ Exited
    /\ error = "Failed to open results file"
    /\ exit_code = 1
    /\ output_file.exists
    /\ results_before.exists
    /\ Len(results_before.lines) >= 2
    /\ results_csv = results_before

\* a numeric flag of the command line whose text std::stoi / std::stod
\* rejects, or whose value is outside the accepted range
UnparseableFlag ==
    \/ argv.population_size.given /\ ~argv.population_size.parses
    \/ argv.generations.given /\ ~argv.generations.parses
    \/ argv.mutation_rate.given /\ ~argv.mutation_rate.parses

OutOfRangeFlag ==
    \/ argv.population_size.given /\ argv.population_size.parses
       /\ argv.population_size.value < 2
    \/ argv.generations.given /\ argv.generations.parses /\ argv.generations.value < 1
    \/ argv.mutation_rate.given /\ argv.mutation_rate.parses
       /\ (argv.mutation_rate.value < 0 \/ argv.mutation_rate.value > 100)

\* C15: a run whose command line carries a numeric flag that does not parse
\* or lies outside its accepted range (population size < 2, generations < 1,
\* mutation rate outside [0, 1]) raises an error and ends with exit code 1.
C15_InvalidFlagTerminates ==
    (Exited /\ (UnparseableFlag \/ OutOfRangeFlag)) => (error # "" /\ exit_code = 1)

\* --population-size 1: the run goes on with a population size of 2, appends
\* its row and ends with exit code 0
C15_OutOfRangeFlagAdjusted ==
    /\ Exited
    /\ argv.population_size = Flag(1)
    /\ options.population_size = 2
    /\ error = ""
    /\ exit_code = 0
    /\ Len(rows_appended) = 1

\* benchmark_runner --algorithm genetic is inside the generational loop of
\* some palette stage
GAPopulationBuilt == caller = "main" /\ pc = "ga_gen"

\* C16: at every palette stage and generation of the Genetic Algorithm the
\* population holds exactly as many individuals as the caller asked for
\* (options.population_size: 64 by default, any value >= 2 as given).
C16_PopulationSizeAsSupplied ==
    GAPopulationBuilt => BagCardinality(population) = options.population_size

\* the default of 64 is run with 65 individuals, in the initial population
\* and after a generation
C16_DefaultRunsWithSixtyFive ==
    /\ GAPopulationBuilt
    /\ options.population_size = DefaultPopulationSize
    /\ iter >= 1
    /\ BagCardinality(population) = DefaultPopulationSize + 1

\* a direct call of load_graph has returned its Graph
LoadReturned == strategy = "load_graph" /\ pc = "returned"

\* a readable file: one problem line with n >= 1, then only edge lines whose
\* endpoints are in 1..n
EdgeLinesInRange(file) ==
    /\ file.readable
    /\ Len(file.lines) >= 1
    /\ file.lines[1].lead = "p"
    /\ file.lines[1].a >= 1
    /\ \A i \in 2..Len(file.lines) :
          /\ file.lines[i].lead = "e"
          /\ file.lines[i].a \in 1..file.lines[1].a
          /\ file.lines[i].b \in 1..file.lines[1].a

\* the undirected edges, 0-based, named by the edge lines of a file
EdgesNamed(file) ==
    {{file.lines[i].a - 1, file.lines[i].b - 1} :
        i \in {j \in 2..Len(file.lines) : file.lines[j].a # file.lines[j].b}}

RECURSIVE DegreeSum(_, _)
DegreeSum(adjacency_list, n) ==
    IF n = 0 THEN 0 ELSE Len(adjacency_list[n - 1]) + DegreeSum(adjacency_list, n - 1)

\* C17: a problem line followed by edge lines in range always loads (self-loop
\* and duplicate lines, in either orientation, raise no error), and the Graph
\* returned has one adjacency vector per vertex, all entries in [0, n), no
\* self-loop, no neighbour twice, a symmetric adjacency, and an edge_count
\* equal to half the sum of the degrees, the number of distinct edges named.
C17_LoadedGraphWellFormed ==
    /\ (strategy = "load_graph" /\ pc = "threw") => ~EdgeLinesInRange(input_file)
    /\ LoadReturned =>
          LET n == loaded.vertex_count
              adj == loaded.adjacency_list
          IN /\ n >= 1
             /\ DOMAIN adj = Vertices(n)
             /\ \A u \in Vertices(n) :
                   /\ \A i \in DOMAIN adj[u] : adj[u][i] \in Vertices(n) \ {u}
                   /\ \A i, j \in DOMAIN adj[u] : i # j => adj[u][i] # adj[u][j]
                   /\ \A v \in Vertices(n) :
                         (\E i \in DOMAIN adj[u] : adj[u][i] = v)
                         <=> (\E j \in DOMAIN adj[v] : adj[v][j] = u)
             /\ 2 * loaded.edge_count = DegreeSum(adj, n)
             /\ EdgeLinesInRange(input_file)
                   => loaded.edge_count = Cardinality(EdgesNamed(input_file))

\* an edge, the same edge in the other orientation and a self-loop: one edge
\* is stored
C17_Witness ==
    /\ LoadReturned
    /\ input_file.lines = <<ProblemLine(2, 0), EdgeLine(1, 2), EdgeLine(2, 1), EdgeLine(2, 2)>>
    /\ loaded.edge_count = 1
    /\ loaded.adjacency_list = [u \in Vertices(2) |-> <<1 - u>>]

\* a caller of append_result_csv after at least one call that returned
RowsAppended == strategy = "append_result_csv" /\ Len(rows_appended) >= 1

\* C18: append_result_csv writes the header exactly when the file is absent
\* or empty at the call: after k >= 1 appends that returned, a file that was
\* absent or empty holds the header as its first line and then the k rows in
\* call order, and a file that held lines holds them, no further header, and
\* then the k rows.
C18_OneHeaderThenRows ==
    RowsAppended =>
        /\ results_csv.exists
        /\ IF ~results_before.exists \/ Len(results_before.lines) = 0
           THEN /\ Len(results_csv.lines) = 1 + Len(rows_appended)
                /\ results_csv.lines[1] = CsvHeader
                /\ SubSeq(results_csv.lines, 2, Len(results_csv.lines)) = rows_appended
           ELSE /\ Len(results_csv.lines) = Len(results_before.lines) + Len(rows_appended)
                /\ results_csv.lines = results_before.lines \o rows_appended

\* three appends of rows that differ, to a file that did not exist
C18_Witness ==
    /\ RowsAppended
    /\ results_before = AbsentFile
    /\ Len(rows_appended) = MaxAppends
    /\ rows_appended[1] # rows_appended[2]
    /\ rows_appended[2] # rows_appended[3]
    /\ results_csv.lines = <<CsvHeader>> \o rows_appended

\* greedy_repair_fixed_k, called directly, has returned
RepairReturned == strategy = "greedy_repair_fixed_k" /\ pc = "returned"

\* the vertices visited before position i of the order
VisitedBefore(order, i) == {order[j] : j \in 1..(i - 1)}

\* the reference procedure, one vertex: partial maps the vertices coloured so
\* far to their colours, done is the set of those vertices
ReferenceColour(g, partial, done, sd, v, K) ==
    LET palette == 0..(K - 1)
        coloured_nbs == Adj(g, v) \cap done
        B == {partial[u] : u \in coloured_nbs}
        same(c) == Cardinality({u \in coloured_nbs : partial[u] = c})
        fewest == {c \in palette : \A d \in palette : same(c) <= same(d)}
    IN IF sd[v] \in palette \ B THEN sd[v]
       ELSE IF palette \ B # {} THEN SetMin(palette \ B)
       ELSE SetMin(fewest)

\* the reference procedure after the first i vertices of the order
RECURSIVE ReferenceRepair(_, _, _, _, _)
ReferenceRepair(g, sd, K, order, i) ==
    IF i = 0 THEN [u \in Vertices(g.vertex_count) |-> -1]
    ELSE LET partial == ReferenceRepair(g, sd, K, order, i - 1)
             c == ReferenceColour(g, partial, VisitedBefore(order, i), sd, order[i], K)
         IN [u \in Vertices(g.vertex_count) |-> IF u = order[i] THEN c ELSE partial[u]]

\* order visits every vertex once, by descending degree
DescendingDegree(g, order) ==
    /\ Len(order) = g.vertex_count
    /\ {order[i] : i \in 1..Len(order)} = Vertices(g.vertex_count)
    /\ \A i, j \in 1..Len(order) : i < j => Degree(g, order[i]) >= Degree(g, order[j])

\* C19: for every graph, palette K >= 1 and seed (entries may be negative or
\* >= K), greedy_repair_fixed_k returns a length-n colouring with entries in
\* [0, K) equal to the reference procedure: vertices by descending degree;
\* the seed colour if it is in [0, K) and no coloured neighbour holds it,
\* else the smallest colour no coloured neighbour holds, else the colour
\* fewest coloured neighbours hold, the smaller index on a tie.
C19_RepairMatchesReference ==
    RepairReturned =>
        /\ DOMAIN colours = Vertices(graph.vertex_count)
        /\ \A v \in Vertices(graph.vertex_count) : colours[v] \in 0..(palette_k - 1)
        /\ DescendingDegree(graph, repair_order)
        /\ \A v \in Vertices(graph.vertex_count) :
              colours[v] = ReferenceRepair(graph, seed, palette_k, repair_order,
                                           graph.vertex_count)[v]

\* the complete graph on 4 vertices with 2 colours and a seed holding -1 and
\* 2: the third vertex meets a tie, the fourth takes the colour that only
\* one of its neighbours holds
C19_Witness ==
    /\ RepairReturned
    /\ graph = CompleteGraph(4)
    /\ palette_k = 2
    /\ \E v \in Vertices(4) : seed[v] = -1
    /\ \E v \in Vertices(4) : seed[v] = 2
    /\ colours[repair_order[3]] = 0
    /\ colours[repair_order[4]] = 1

\* the neighbours of the i-th vertex of the order coloured before it, and
\* the edges to them that its colour makes monochromatic
ColouredNeighbours(i) == Adj(graph, repair_order[i]) \cap VisitedBefore(repair_order, i)

ConflictsIntroduced(i) ==
    Cardinality({u \in ColouredNeighbours(i) : colours[u] = colours[repair_order[i]]})

\* C20 as stated: every assignment of Greedy Repair makes at most one edge
\* to an already-coloured neighbour monochromatic.
C20_AtMostOneConflict ==
    RepairReturned => \A i \in 1..Len(repair_order) : ConflictsIntroduced(i) <= 1

\* C20: an assignment of Greedy Repair makes as few edges to already-coloured
\* neighbours monochromatic as any colour of the palette would: none when a
\* colour is free, and never more than the number of coloured neighbours
\* divided by K.
C20_FewestConflicts ==
    RepairReturned =>
        \A i \in 1..Len(repair_order) :
            /\ \A c \in 0..(palette_k - 1) :
                  ConflictsIntroduced(i)
                     <= Cardinality({u \in ColouredNeighbours(i) : colours[u] = c})
            /\ (\E c \in 0..(palette_k - 1) :
                   \A u \in ColouredNeighbours(i) : colours[u] # c)
                  => ConflictsIntroduced(i) = 0
            /\ ConflictsIntroduced(i) * palette_k <= Cardinality(ColouredNeighbours(i))

\* the complete graph on 5 vertices with 2 colours: the last vertex has two
\* neighbours of each colour and makes two edges monochromatic
C20_Witness ==
    /\ RepairReturned
    /\ graph = CompleteGraph(5)
    /\ palette_k = 2
    /\ ConflictsIntroduced(5) = 2

\* C21: the visiting order of Greedy Repair (the same std::sort call as in
\* Welsh-Powell and in Tabu's initial builder) is descending degree with ties
\* broken by ascending vertex id: of two vertices of equal degree the one
\* with the smaller id is visited first.
C21_TiesByAscendingId ==
    RepairReturned =>
        \A i, j \in 1..Len(repair_order) :
            (i < j /\ Degree(graph, repair_order[i]) = Degree(graph, repair_order[j]))
               => repair_order[i] < repair_order[j]

\* the single edge 0-1: both vertices have degree 1, vertex 1 is visited
\* first and keeps the seed colour that vertex 0 would have kept
C21_TieVisitedLargerIdFirst ==
    /\ RepairReturned
    /\ graph = PathGraph(2)
    /\ DescendingDegree(graph, repair_order)
    /\ repair_order = <<1, 0>>
    /\ palette_k = 2
    /\ seed = [v \in Vertices(2) |-> 1]
    /\ colours = [v \in Vertices(2) |-> v]

\* inside the inner loop of Tabu or of SA
InInnerLoop == pc \in {"tabu_iter", "sa_iter"}

\* C22: in the inner loops of Tabu and SA the running total conflicts equals
\* the number of monochromatic edges (each counted once) of the current
\* colouring, after every applied Tabu move, every accepted SA move and
\* every rejected SA move.
C22_RunningTotalIsTrueCount ==
    InInnerLoop => conflicts = count_conflicts(graph, work)

\* SA on the triangle with two colours: an accepted uphill move has taken
\* the total from 1 to 3
C22_Witness ==
    /\ pc = "sa_iter"
    /\ iter >= 2
    /\ best_overall.conflicts = 1
    /\ conflicts = 3
    /\ count_conflicts(graph, work) = 3

\* Tabu is about to choose the move of iteration iter, and there is one
TabuChoosing ==
    /\ pc = "tabu_iter"
    /\ iter <= max_iterations
    /\ get_conflicting_vertices(graph, work) # {}
    /\ find_best_move(graph, work, palette_k, tabu, iter, conflicts,
                      best_conflicts_this_k).best_v >= 0

\* the move the iteration applies
NextMove == AppliedMove(graph, work, palette_k, tabu, iter, conflicts, best_conflicts_this_k)

\* the number of monochromatic edges once v holds colour c
TotalWith(v, c) == count_conflicts(graph, [u \in DOMAIN work |-> IF u = v THEN c ELSE work[u]])

\* v left colour c at an iteration t of this stage with t + tabu_tenure > iter
LeftRecently(v, c) ==
    \E h \in 1..Len(moves) :
        moves[h].v = v /\ moves[h].from = c /\ moves[h].t + tabu_tenure > iter

\* the last iteration of this stage at which v left colour c, 0 if none
LastLeft(v, c) ==
    SetMax({0} \cup {moves[h].t + tabu_tenure :
                        h \in {i \in 1..Len(moves) : moves[i].v = v /\ moves[i].from = c}})

\* C23: once v has been moved away from colour c at iteration t of a stage,
\* tabu[v][c] is t + tabu_tenure, and at a later iteration before
\* t + tabu_tenure v is moved back to c only if that takes the total below
\* the best total of the stage.
C23_TabuMoveNeedsAspiration ==
    /\ pc = "tabu_iter" =>
          \A v \in Vertices(graph.vertex_count) : \A c \in 0..(palette_k - 1) :
              tabu[v][c] = LastLeft(v, c)
    /\ TabuChoosing =>
          (LeftRecently(NextMove.v, NextMove.to)
              => TotalWith(NextMove.v, NextMove.to) < best_conflicts_this_k)

\* at iteration 2 on TabuTie7 vertex 2 has just left colour 0; moving it back
\* would be as good as the move that is applied, and it is passed over
C23_Witness ==
    /\ TabuChoosing
    /\ graph = TabuTie7
    /\ LeftRecently(2, 0)
    /\ work[2] # 0
    /\ TotalWith(2, 0) = TotalWith(NextMove.v, NextMove.to)
    /\ TotalWith(2, 0) >= best_conflicts_this_k
    /\ NextMove.v # 2

\* the moves the iteration considers: a conflicting vertex and another colour
CandidateMoves ==
    {m \in get_conflicting_vertices(graph, work) \X (0..(palette_k - 1)) : m[2] # work[m[1]]}

\* the move is tabu at this iteration
MoveIsTabu(v, c) == tabu[v][c] > iter

\* the move is non-tabu, or tabu and satisfying the aspiration criterion
Admissible(v, c) == ~MoveIsTabu(v, c) \/ TotalWith(v, c) < best_conflicts_this_k

\* the applied move is an admissible move on a conflicting vertex with the
\* smallest delta among the admissible moves, and the stage ends when no
\* move is admissible
AppliedMoveIsBestAdmissible ==
    /\ TabuChoosing =>
          /\ <<NextMove.v, NextMove.to>> \in CandidateMoves
          /\ Admissible(NextMove.v, NextMove.to)
          /\ \A m \in CandidateMoves :
                Admissible(m[1], m[2]) => TotalWith(NextMove.v, NextMove.to) <= TotalWith(m[1], m[2])
    /\ (pc = "tabu_iter" /\ iter <= max_iterations)
          => (find_best_move(graph, work, palette_k, tabu, iter, conflicts,
                             best_conflicts_this_k).best_v < 0
                <=> \A m \in CandidateMoves : ~Admissible(m[1], m[2]))

\* C24: when several admissible moves share the smallest delta and at least
\* one of them is non-tabu, the move Tabu applies is a non-tabu one.
C24_NonTabuPreferredOnTies ==
    TabuChoosing =>
        ((\E m \in CandidateMoves :
              /\ ~MoveIsTabu(m[1], m[2])
              /\ TotalWith(m[1], m[2]) = TotalWith(NextMove.v, NextMove.to))
            => ~MoveIsTabu(NextMove.v, NextMove.to))

\* iteration 4 on TabuTie7: moving vertex 2 to colour 0 (tabu, aspirated) and
\* to colour 1 (non-tabu) both take the total from 2 to 1; 2 -> 0 is applied
C24_Witness ==
    /\ TabuChoosing
    /\ graph = TabuTie7
    /\ iter = 4
    /\ Line(work) = <<1, 2, 2, 1, 0, 0, 2>>
    /\ MoveIsTabu(2, 0)
    /\ ~MoveIsTabu(2, 1)
    /\ TotalWith(2, 0) = TotalWith(2, 1)
    /\ NextMove.v = 2
    /\ NextMove.to = 0

\* the number of neighbours of v that hold colour c in c_vec
SameColouredNeighbours(c_vec, v, c) ==
    Cardinality({u \in Adj(graph, v) : c_vec[u] = c})

\* mutate has just returned: work is the child as crossover left it, seed
\* the child as mutate left it
Mutated == pc = "ga_repair"

\* C25: a vertex whose colour mutate has changed holds a colour of [0, K)
\* that minimises the number of its neighbours having that colour.
C25_MutationMinimisesConflicts ==
    Mutated =>
        \A v \in DOMAIN work :
            seed[v] # work[v] =>
                \A c \in 0..(palette_k - 1) :
                    SameColouredNeighbours(seed, v, seed[v]) <= SameColouredNeighbours(seed, v, c)

\* on the triangle at palette 2 the mutated vertex has taken the colour of
\* both its neighbours although the other colour is on none of them
C25_Witness ==
    /\ Mutated
    /\ graph = CompleteGraph(3)
    /\ palette_k = 2
    /\ \E v \in DOMAIN work :
          /\ seed[v] # work[v]
          /\ \A u \in DOMAIN work \ {v} : seed[u] = work[u]
          /\ SameColouredNeighbours(seed, v, seed[v]) = 2
          /\ SameColouredNeighbours(seed, v, work[v]) = 0

\* a is before b in the lexicographic order on (conflicts, colours used),
\* both counted on the colour vector itself
LexBefore(a, b) ==
    \/ count_conflicts(graph, a.colours) < count_conflicts(graph, b.colours)
    \/ /\ count_conflicts(graph, a.colours) = count_conflicts(graph, b.colours)
       /\ count_colour_usage(a.colours) < count_colour_usage(b.colours)

\* C26: for any two Individuals evaluated on the graph of the run,
\* fitness(a) < fitness(b) iff a has fewer conflicts than b, or as many
\* conflicts and fewer colours used; a conflict-free Individual beats every
\* Individual with a conflict.
C26_FitnessIsLexicographic ==
    \A a \in evaluated : \A b \in evaluated :
        /\ (a.fitness < b.fitness) <=> LexBefore(a, b)
        /\ (count_conflicts(graph, a.colours) = 0 /\ count_conflicts(graph, b.colours) > 0)
              => a.fitness < b.fitness

\* the run has evaluated a conflict-free Individual with more colours and a
\* conflicting one with fewer, and two Individuals that differ in colours only
C26_Witness ==
    /\ pc = "ga_gen"
    /\ iter = 1
    /\ \E a \in evaluated : \E b \in evaluated :
          /\ count_conflicts(graph, a.colours) = 0
          /\ count_conflicts(graph, b.colours) > 0
          /\ count_colour_usage(a.colours) > count_colour_usage(b.colours)
          /\ a.fitness < b.fitness
    /\ \E a \in evaluated : \E b \in evaluated :
          /\ count_conflicts(graph, a.colours) = count_conflicts(graph, b.colours)
          /\ count_colour_usage(a.colours) < count_colour_usage(b.colours)
          /\ a.fitness < b.fitness

\* the vertices the working assignment of Exact has coloured
ColouredVertices == {v \in DOMAIN work : work[v] # -1}

\* the activations that are inside one of their recursive calls
Calling == {i \in DOMAIN stack : stack[i].at \in {"existing", "new_colour"}}

\* every activation was called with one more vertex coloured than its caller,
\* has used no more colours than vertices, and is at one of its at most
\* current_max_colour + 2 children
SearchTreeFinite ==
    /\ Len(stack) <= graph.vertex_count + 1
    /\ \A i \in DOMAIN stack :
          /\ stack[i].coloured_count = i - 1
          /\ stack[i].current_max_colour < stack[i].coloured_count
          /\ stack[i].c \in 0..(stack[i].current_max_colour + 1)
    /\ Cardinality(ColouredVertices) = Cardinality(Calling)
    /\ \A i \in Calling : work[stack[i].u] = stack[i].c
    /\ Calling \in {DOMAIN Callers, DOMAIN stack}

\* how far activation i is through its body: 5c + 1 at the head of the
\* loop pass for colour c, one more inside the recursive call, one more
\* when that call has returned
PositionOf(i) ==
    LET f == stack[i]
    IN IF f.at = "entry" THEN 0
       ELSE IF f.at = "loop" THEN 5 * f.c + 1
       ELSE IF f.at = "new" THEN 5 * f.c + 2
       ELSE (IF f.at = "existing" THEN 5 * f.c + 2 ELSE 5 * f.c + 3)
            + (IF i = Len(stack) THEN 1 ELSE 0)

\* the place of the run in the search tree: the phase of colour_with_exact,
\* then the position of every activation from the outermost to the innermost
SearchPosition ==
    <<IF pc = "call" THEN 0
      ELSE IF pc = "exact_search" /\ stack # <<>> THEN 1
      ELSE IF pc = "exact_search" THEN 2
      ELSE 3>>
    \o [i \in DOMAIN stack |-> PositionOf(i)]

\* a comes before b in the lexicographic order, a prefix before its extensions
LexLess(a, b) ==
    \E j \in 1..Len(b) :
        /\ \A k \in 1..(j - 1) : k <= Len(a) /\ a[k] = b[k]
        /\ (j > Len(a) \/ a[j] < b[j])

\* a run that has not returned has a next statement
SearchCanStep ==
    /\ pc \in {"call", "exact_search", "returned"}
    /\ (pc = "exact_search" /\ stack # <<>>) =>
          /\ Innermost.at \in {"entry", "loop", "existing", "new", "new_colour"}
          /\ Innermost.at # "entry" => Innermost.u \in Vertices(graph.vertex_count)

\* C27: the branch-and-bound search of Exact terminates: every recursive
\* call has one more vertex coloured than its caller, so the depth is at most
\* n; every activation has finitely many children; every step takes the run
\* strictly forward through the finite search tree and a run that has not
\* returned can step; and when the search has returned every vertex of the
\* working assignment is uncoloured again.
C27_SearchTerminates ==
    /\ [](pc = "exact_search" => SearchTreeFinite)
    /\ []SearchCanStep
    /\ [][LexLess(SearchPosition, SearchPosition')]_vars
    /\ []((pc = "returned" \/ (pc = "exact_search" /\ stack = <<>>))
             => ColouredVertices = {})

\* Exact has returned from a search on the 7-vertex graph that went through
\* all its vertices twice to improve on DSATUR
C27_Witness ==
    /\ pc = "returned"
    /\ graph = DsaturHard7
    /\ DOMAIN work = Vertices(7)
    /\ ColouredVertices = {}
    /\ Len(improvements) >= 1

\* c_vec is a zero-conflict colouring of all the vertices of the graph
ProperColouring(c_vec) ==
    /\ DOMAIN c_vec = Vertices(graph.vertex_count)
    /\ \A v \in DOMAIN c_vec : c_vec[v] >= 0
    /\ count_conflicts(graph, c_vec) = 0

\* c_vec uses exactly the colours 0..k-1
UsesExactly(c_vec, k) ==
    /\ count_colours(c_vec) = k
    /\ {c_vec[v] : v \in DOMAIN c_vec} = 0..(k - 1)

\* C28: throughout the search of Exact best_k never increases and
\* best_solution is a zero-conflict colouring of the n vertices using exactly
\* best_k colours; best_k starts at the colour count of DSATUR, so the vector
\* returned uses at most as many colours as DSATUR does.
C28_IncumbentValidNeverWorse ==
    /\ [](pc = "exact_search" =>
             /\ ProperColouring(best_solution)
             /\ UsesExactly(best_solution, best_valid_k)
             /\ best_valid_k <= count_colours(colour_with_dsatur(graph)))
    /\ [][best_valid_k' <= best_valid_k]_vars
    /\ [](pc = "returned" =>
             /\ ProperColouring(colours)
             /\ count_colours(colours) <= count_colours(colour_with_dsatur(graph)))

\* in the middle of the search on the 7-vertex graph the incumbent has been
\* replaced and best_k is below the colour count of DSATUR
C28_Witness ==
    /\ pc = "exact_search"
    /\ stack # <<>>
    /\ graph = DsaturHard7
    /\ Len(improvements) = 1
    /\ best_solution # colour_with_dsatur(graph)
    /\ best_valid_k < count_colours(colour_with_dsatur(graph))

\* DSATUR is at the head of its while loop
DsaturLoopHead == pc = "dsatur_loop"

\* the vertices DSATUR has not coloured yet
DsaturUncoloured == {w \in Vertices(graph.vertex_count) : dsatur.colour[w] = -1}

\* the number of distinct colours on the coloured neighbours of w
Saturation(w) == Cardinality({dsatur.colour[x] : x \in Adj(graph, w)} \ {-1})

\* the number of uncoloured neighbours of w
RemainingDegree(w) == Cardinality(Adj(graph, w) \cap DsaturUncoloured)

\* u comes before w under (saturation desc, remaining degree desc, id asc)
DsaturBefore(u, w) ==
    \/ Saturation(u) > Saturation(w)
    \/ Saturation(u) = Saturation(w) /\ RemainingDegree(u) > RemainingDegree(w)
    \/ Saturation(u) = Saturation(w) /\ RemainingDegree(u) = RemainingDegree(w) /\ u < w

\* C29: at the head of every pass of the main loop of DSATUR, Q holds exactly
\* one entry per uncoloured vertex; for each uncoloured w, sat[w] is the
\* number of distinct colours on its coloured neighbours, deg[w] the number
\* of its uncoloured neighbours and the entry of w in Q has the key
\* (sat[w], deg[w], w); the vertex the pass pops is the first under
\* (saturation desc, remaining degree desc, id asc); every vertex is popped
\* exactly once.
C29_DsaturLoopInvariant ==
    /\ DsaturLoopHead =>
          /\ {e.v : e \in dsatur.Q} = DsaturUncoloured
          /\ Cardinality(dsatur.Q) = Cardinality(DsaturUncoloured)
          /\ \A w \in DsaturUncoloured :
                /\ dsatur.sat[w] = Saturation(w)
                /\ dsatur.deg[w] = RemainingDegree(w)
                /\ [sat |-> dsatur.sat[w], deg |-> dsatur.deg[w], v |-> w] \in dsatur.Q
          /\ dsatur.Q # {} =>
                \A w \in DsaturUncoloured \ {QBegin(dsatur.Q).v} :
                    DsaturBefore(QBegin(dsatur.Q).v, w)
          /\ Len(popped) = Cardinality({popped[i] : i \in DOMAIN popped})
          /\ {popped[i] : i \in DOMAIN popped} = Vertices(graph.vertex_count) \ DsaturUncoloured
    /\ (pc = "returned" /\ strategy = "colour_with_dsatur") =>
          /\ Len(popped) = graph.vertex_count
          /\ {popped[i] : i \in DOMAIN popped} = Vertices(graph.vertex_count)

\* in the middle of a run the vertex about to be popped ties on saturation
\* with another uncoloured vertex of smaller id and wins on the remaining
\* degree, which is below its degree in the graph
C29_Witness ==
    /\ DsaturLoopHead
    /\ Len(popped) >= 2
    /\ dsatur.Q # {}
    /\ \E w \in DsaturUncoloured :
          LET u == QBegin(dsatur.Q).v
          IN /\ w < u
             /\ Saturation(w) = Saturation(u)
             /\ Saturation(u) >= 1
             /\ RemainingDegree(w) < RemainingDegree(u)
             /\ RemainingDegree(u) < Degree(graph, u)

\* one of the three metaheuristics is running
Metaheuristic ==
    strategy \in {"colour_with_tabu", "colour_with_simulated_annealing", "colour_with_genetic"}

\* the run is inside its descent over the palettes
InDescent ==
    pc \in {"tabu_stage", "tabu_iter", "tabu_return", "sa_stage", "sa_iter", "ga_stage", "ga_gen"}

\* K = Delta + 1, the palette of the first stage
FirstPalette == max_degree(graph) + 1

\* C30: in Tabu, SA and GA the first stage (K = Delta + 1) has a zero-conflict
\* colouring straight from its initial construction, so its inner loop is
\* never entered and a valid colouring is recorded before any later stage;
\* every run returns the recorded colouring, which has no conflict, and
\* never one of the fallback vectors.
C30_FirstStageAlwaysValid ==
    Metaheuristic =>
        /\ (InDescent /\ palette_k = FirstPalette) =>
              /\ pc \notin {"tabu_iter", "sa_iter"}
              /\ pc = "ga_gen" =>
                    /\ best.conflicts = 0
                    /\ \A x \in BagToSet(population) : count_conflicts(graph, x.colours) = 0
        /\ (InDescent /\ palette_k < FirstPalette) =>
              /\ recorded # {}
              /\ best_solution # <<>>
              /\ count_conflicts(graph, best_solution) = 0
        /\ pc = "tabu_return" => best_solution # <<>>
        /\ pc = "returned" =>
              /\ best_solution # <<>>
              /\ colours = best_solution
              /\ DOMAIN colours = Vertices(graph.vertex_count)
              /\ \A v \in DOMAIN colours : colours[v] >= 0
              /\ count_conflicts(graph, colours) = 0

\* GA has returned from the failed stage K = 1 on a graph with an edge: the
\* vector returned is the one recorded at an earlier stage
C30_Witness ==
    /\ pc = "returned"
    /\ strategy = "colour_with_genetic"
    /\ graph.edge_count >= 1
    /\ palette_k = 1
    /\ palette_k < FirstPalette
    /\ colours = best_solution
    /\ count_conflicts(graph, colours) = 0

=============================================================================
